---- MODULE Spec2Model ----
(***************************************************************************)
(* GitAgent (src/git_agent_langgraph.py): the analyze -> execute -> verify *)
(* -> decide-to-continue loop of UnifiedGitAgent, its session records on   *)
(* disk, and successive process_query invocations on one repository.       *)
(* Texts (requests, commands, git output) are TLA+ strings, and the        *)
(* substring tests of the code are computed on them.                       *)
(***************************************************************************)
EXTENDS Integers, Sequences, FiniteSets, TLC

(***************************************************************************)
(* Bounds of the model.                                                    *)
(***************************************************************************)
\* commands executed against the repository in one behaviour
MaxExec == 3
\* largest value of int(time.time()) the clock reaches
MaxClock == 2

(***************************************************************************)
(* Text helpers: Python's `in`, str.startswith, str.split, str.lower.      *)
(***************************************************************************)
\* k in s
In(k, s) == \E i \in 1..(Len(s) - Len(k) + 1) : SubSeq(s, i, i + Len(k) - 1) = k

StartsWith(s, k) == Len(s) >= Len(k) /\ SubSeq(s, 1, Len(k)) = k

CharAt(s, i) == SubSeq(s, i, i)

IsSpace(c) == c = " " \/ c = "\n" \/ c = "\t"

SetMax(S) == CHOOSE m \in S : \A n \in S : n <= m

SetMin(S) == CHOOSE m \in S : \A n \in S : m <= n

\* the positions of s that hold no whitespace
Inked(s) == {i \in 1..Len(s) : ~IsSpace(CharAt(s, i))}

\* s.strip()
Strip(s) ==
    LET keep == Inked(s)
    IN  IF keep = {} THEN "" ELSE SubSeq(s, SetMin(keep), SetMax(keep))

\* s.split()[0], "" when s has no word
FirstWord(s) ==
    LET keep == Inked(s)
    IN  IF keep = {} THEN ""
        ELSE SubSeq(s, SetMin(keep), SetMin({i \in keep : i + 1 \notin keep}))

\* s.split()[-1], "" when s has no word
LastWord(s) ==
    LET keep == Inked(s)
    IN  IF keep = {} THEN ""
        ELSE SubSeq(s, SetMax({i \in keep : i - 1 \notin keep}), SetMax(keep))

\* the text after the first word and the whitespace that follows it
AfterFirstWord(s) ==
    LET keep == Inked(s)
        rest == {i \in keep : \E j \in keep : j < i /\ j + 1 \notin keep}
    IN  IF rest = {} THEN "" ELSE SubSeq(s, SetMin(rest), SetMax(rest))

RECURSIVE Words(_)
\* s.split()
Words(s) ==
    IF FirstWord(s) = "" THEN <<>>
    ELSE <<FirstWord(s)>> \o Words(AfterFirstWord(s))

RECURSIVE JoinWith(_, _)
\* sep.join(parts)
JoinWith(parts, sep) ==
    IF parts = <<>> THEN ""
    ELSE IF Len(parts) = 1 THEN parts[1]
    ELSE parts[1] \o sep \o JoinWith(Tail(parts), sep)

\* x in parts, for a list
Member(x, parts) == \E i \in 1..Len(parts) : parts[i] = x

RECURSIVE Quoted(_)
\* the items of repr(parts), each between single quotes
Quoted(parts) ==
    IF parts = <<>> THEN <<>>
    ELSE <<"'" \o parts[1] \o "'">> \o Quoted(Tail(parts))

\* repr(parts) of a list of strings that hold no quote and no backslash
ListRepr(parts) == "[" \o JoinWith(Quoted(parts), ", ") \o "]"

RECURSIVE ShlexScan(_, _, _, _, _, _)
\* shlex.split(s), POSIX rules, from position i on: cur is the token being
\* read (open tells whether there is one), quote the quote character the
\* scan is inside of ("" when outside), out the tokens read so far.
\* ok = FALSE stands for the ValueError of an unclosed quote or of a
\* backslash that escapes nothing
ShlexScan(s, i, cur, open, quote, out) ==
    IF i > Len(s) THEN
        IF quote # "" THEN [ok |-> FALSE, parts |-> <<>>]
        ELSE [ok |-> TRUE, parts |-> IF open THEN Append(out, cur) ELSE out]
    ELSE IF quote = "'" THEN
        IF CharAt(s, i) = "'" THEN ShlexScan(s, i + 1, cur, TRUE, "", out)
        ELSE ShlexScan(s, i + 1, cur \o CharAt(s, i), TRUE, quote, out)
    ELSE IF quote = "\"" THEN
        IF CharAt(s, i) = "\"" THEN ShlexScan(s, i + 1, cur, TRUE, "", out)
        ELSE IF CharAt(s, i) = "\\" THEN
            IF i = Len(s) THEN [ok |-> FALSE, parts |-> <<>>]
            ELSE IF CharAt(s, i + 1) \in {"\"", "\\"}
            THEN ShlexScan(s, i + 2, cur \o CharAt(s, i + 1), TRUE, quote, out)
            ELSE ShlexScan(s, i + 2, cur \o SubSeq(s, i, i + 1), TRUE, quote, out)
        ELSE ShlexScan(s, i + 1, cur \o CharAt(s, i), TRUE, quote, out)
    ELSE IF CharAt(s, i) \in {"'", "\""}
    THEN ShlexScan(s, i + 1, cur, TRUE, CharAt(s, i), out)
    ELSE IF CharAt(s, i) = "\\" THEN
        IF i = Len(s) THEN [ok |-> FALSE, parts |-> <<>>]
        ELSE ShlexScan(s, i + 2, cur \o CharAt(s, i + 1), TRUE, quote, out)
    ELSE IF IsSpace(CharAt(s, i)) THEN
        IF open THEN ShlexScan(s, i + 1, "", FALSE, quote, Append(out, cur))
        ELSE ShlexScan(s, i + 1, cur, open, quote, out)
    ELSE ShlexScan(s, i + 1, cur \o CharAt(s, i), TRUE, quote, out)

\* shlex.split(s)
ShlexSplit(s) == ShlexScan(s, 1, "", FALSE, "", <<>>)

UpperAlpha == "ABCDEFGHIJKLMNOPQRSTUVWXYZ"

LowerAlpha == "abcdefghijklmnopqrstuvwxyz"

UpperChars == {CharAt(UpperAlpha, i) : i \in 1..26}

LowerChar(c) ==
    IF c \notin UpperChars THEN c
    ELSE CharAt(LowerAlpha, CHOOSE i \in 1..26 : CharAt(UpperAlpha, i) = c)

\* s.Lower(), eight characters at a time
Lower(s) ==
    LET lc(i) == IF i <= Len(s) THEN LowerChar(CharAt(s, i)) ELSE ""
        low[b \in 0..((Len(s) + 7) \div 8)] ==
            IF b = 0 THEN ""
            ELSE low[b - 1] \o lc(8 * b - 7) \o lc(8 * b - 6) \o lc(8 * b - 5)
                 \o lc(8 * b - 4) \o lc(8 * b - 3) \o lc(8 * b - 2)
                 \o lc(8 * b - 1) \o lc(8 * b)
    IN  low[(Len(s) + 7) \div 8]

\* re.search(r'branch\s+(?:named\s+)?(?:with name\s+)?([^\s]+)', q):
\* group 1 of the leftmost match, "" when there is no match
BranchNameMatch(q) ==
    LET starts == {i \in 1..(Len(q) - 6) :
                      /\ SubSeq(q, i, i + 5) = "branch"
                      /\ IsSpace(CharAt(q, i + 6))
                      /\ Strip(SubSeq(q, i + 6, Len(q))) # ""}
        skip(r, word) ==
            IF /\ StartsWith(r, word)
               /\ Len(r) > Len(word)
               /\ IsSpace(CharAt(r, Len(word) + 1))
               /\ Strip(SubSeq(r, Len(word) + 1, Len(r))) # ""
            THEN Strip(SubSeq(r, Len(word) + 1, Len(r)))
            ELSE r
    IN  IF starts = {} THEN ""
        ELSE LET i == SetMin(starts)
                 r0 == Strip(SubSeq(q, i + 6, Len(q)))
             IN  FirstWord(skip(skip(r0, "named"), "with name"))

(***************************************************************************)
(* Inputs: the requests a user types, and the commands and probes the      *)
(* oracle names in its replies.                                            *)
(***************************************************************************)
Queries ==
    {"unstage changes", "stage and commit", "stage, commit and push",
     "create branch dev", "Delete current branch", "pull and merge",
     "switch to main, pull and merge", "what is the status"}

\* the commands the oracle proposes for a request
OracleCommands(q) ==
    IF q = "unstage changes" THEN {"reset HEAD .", "status"}
    ELSE IF q = "stage and commit" THEN {"add .", "commit -m wip"}
    ELSE IF q = "stage, commit and push" THEN {"add .", "commit -m wip", "push"}
    ELSE IF q = "create branch dev" THEN {"checkout -b dev", "git checkout main"}
    ELSE IF q = "Delete current branch" THEN {"checkout main", "branch -D feature"}
    ELSE IF q = "pull and merge" THEN {"pull", "merge feature"}
    ELSE IF q = "switch to main, pull and merge"
    THEN {"checkout main", "pull", "merge feature"}
    ELSE {"status"}

\* the probe lists the oracle attaches to a command
OracleProbes(command) ==
    IF FirstWord(command) = "commit" THEN {<<"log -1">>}
    ELSE IF StartsWith(command, "checkout -b ")
    THEN {<<"rev-parse --verify " \o LastWord(command)>>}
    ELSE IF FirstWord(command) \in {"reset", "pull"} THEN {<<>>}
    ELSE {<<"status">>}

\* the commands that talk to a remote and may not come back in time
MayTimeOut(command) == FirstWord(command) \in {"pull", "push", "fetch"}

\* for each probe of a list, whether it comes back in time
ProbeOutcomes(probes) == {[i \in 1..Len(probes) |-> TRUE]}

(***************************************************************************)
(* The repository and the git binary, as far as the agent observes them:   *)
(* the checked-out branch, the local branches, and the three facts `git    *)
(* status` reports (staged changes, unstaged changes, commits not pushed). *)
(***************************************************************************)
Branches == {"dev", "develop", "feature", "main"}

\* text of `git status`
StatusText(r) ==
    "On branch " \o r.current
    \o (IF r.ahead THEN "\nYour branch is ahead of 'origin/x' by 1 commit."
                   ELSE "\nYour branch is up to date with 'origin/x'.")
    \o (IF r.staged THEN "\nChanges to be committed:\n\tmodified: a.txt" ELSE "")
    \o (IF r.dirty THEN "\nChanges not staged for commit:\n\tmodified: b.txt" ELSE "")
    \o (IF ~r.staged /\ ~r.dirty THEN "\nnothing to commit, working tree clean"
        ELSE "")

\* the order in which `git branch` lists them
BranchOrder == <<"dev", "develop", "feature", "main">>

\* text of `git branch`
BranchText(r) ==
    LET line(b) == (IF b = r.current THEN "* " ELSE "  ") \o b
        upto[i \in 0..Len(BranchOrder)] ==
            IF i = 0 THEN ""
            ELSE IF BranchOrder[i] \notin r.branches THEN upto[i - 1]
            ELSE IF upto[i - 1] = "" THEN line(BranchOrder[i])
            ELSE upto[i - 1] \o "\n" \o line(BranchOrder[i])
    IN  upto[Len(BranchOrder)]

TimedOut == "Error: Command timed out (likely waiting for user input)"

\* the git process started with subcommand sub, the arguments rest after
\* it, the last of them arg.  Result: the repository afterwards, the exit
\* code and what the process wrote to stdout and stderr
Git(r, sub, rest, arg) ==
    LET fail(msg) == [repo |-> r, code |-> 1, stdout |-> "", stderr |-> msg \o "\n"]
        done(r2, text) == [repo |-> r2, code |-> 0, stdout |-> text, stderr |-> ""]
    IN  IF sub \in {"checkout", "switch"} THEN
            IF StartsWith(rest, "-b ") \/ StartsWith(rest, "-c ") THEN
                IF arg \in r.branches
                THEN fail("fatal: a branch named '" \o arg \o "' already exists")
                ELSE IF arg \notin Branches
                THEN fail("fatal: '" \o arg \o "' is not a valid branch name")
                ELSE done([r EXCEPT !.branches = @ \cup {arg}, !.current = arg], "")
            ELSE IF arg \in r.branches
                 THEN done([r EXCEPT !.current = arg], "")
                 ELSE fail("error: pathspec '" \o arg \o "' did not match")
        ELSE IF sub = "branch" THEN
            IF StartsWith(rest, "-d ") \/ StartsWith(rest, "-D ") THEN
                IF arg \notin r.branches
                THEN fail("error: branch '" \o arg \o "' not found.")
                ELSE IF arg = r.current
                THEN fail("error: Cannot delete branch '" \o arg \o "' checked out")
                ELSE done([r EXCEPT !.branches = @ \ {arg}],
                          "Deleted branch " \o arg \o "\n")
            ELSE done(r, BranchText(r) \o "\n")
        ELSE IF sub = "add" THEN
            done([r EXCEPT !.staged = r.staged \/ r.dirty, !.dirty = FALSE], "")
        ELSE IF sub = "commit" THEN
            IF r.staged
            THEN done([r EXCEPT !.staged = FALSE, !.ahead = TRUE],
                      "[" \o r.current \o " 1a2b3c4] update\n")
            ELSE [repo |-> r, code |-> 1, stderr |-> "",
                  stdout |-> "no changes added to commit\n"]
        ELSE IF sub = "push" THEN done([r EXCEPT !.ahead = FALSE], "")
        ELSE IF sub \in {"pull", "merge", "rebase"}
        THEN done(r, "Already up to date.\n")
        ELSE IF sub = "reset" THEN
            done([r EXCEPT !.staged = FALSE, !.dirty = r.dirty \/ r.staged], "")
        ELSE IF sub = "status" THEN done(r, StatusText(r) \o "\n")
        ELSE IF sub = "log" THEN done(r, "commit 1a2b3c4\n    update\n")
        ELSE IF sub = "rev-parse" THEN
            IF arg \in r.branches THEN done(r, "1a2b3c4\n")
            ELSE fail("fatal: Needed a single revision")
        ELSE IF sub = "" THEN
            [repo |-> r, code |-> 1, stderr |-> "",
             stdout |-> "usage: git [--version] [--help] <command> [<args>]\n"]
        ELSE fail("git: '" \o sub \o "' is not a git command. See 'git --help'.")

\* subprocess.run(["git"] + parts): the outcome of the process
GitProcess(r, parts) ==
    IF parts = <<>> THEN Git(r, "", "", "")
    ELSE Git(r, parts[1], JoinWith(Tail(parts), " "), parts[Len(parts)])

\* str(e) of the CalledProcessError
CalledProcessError(parts) ==
    "Command '" \o ListRepr(<<"git">> \o parts)
    \o "' returned non-zero exit status 1."

\* stdout returned whatever the outcome
StdoutOnly(p, parts, in_time) == Strip(p.stdout)

\* lines 17-22 of run_git_command: the string made of the outcome p of the
\* process; in_time = FALSE when the process is not over after 30 s
ResultText(p, parts, in_time) ==
    IF ~in_time THEN TimedOut
    ELSE IF p.code # 0
    THEN "Error: " \o (IF Strip(p.stderr) # "" THEN Strip(p.stderr)
                       ELSE CalledProcessError(parts))
    ELSE Strip(p.stdout)

\* what run_git_command leaves: the repository after the process p (as it
\* was when the process was not over in time) and the string returned
RunOutcome(r, p, parts, in_time) ==
    [repo |-> IF in_time THEN p.repo ELSE r,
     out |-> ResultText(p, parts, in_time)]

\* run_git_command(parts)
run_git_command(r, parts, in_time) ==
    RunOutcome(r, GitProcess(r, parts), parts, in_time)

StripGit(command) ==
    IF StartsWith(command, "git ") THEN SubSeq(command, 5, Len(command))
    ELSE command

(***************************************************************************)
(* Python dicts: a function whose domain is the set of keys present.       *)
(***************************************************************************)
EmptyDict == <<>>

Has(d, k) == k \in DOMAIN d

Get(d, k, default) == IF k \in DOMAIN d THEN d[k] ELSE default

Put(d, k, v) == [x \in (DOMAIN d) \cup {k} |-> IF x = k THEN v ELSE d[x]]

(***************************************************************************)
(* The agent's view of git: src/utils/git_commands.py and the branch       *)
(* parser of the agent.                                                    *)
(***************************************************************************)
\* lines 379-380
branch_name(branch_match) == IF branch_match # "" THEN branch_match ELSE "new-branch"

\* lines 61-79 of execute_git_command: the flags added to the words of a
\* rebase, a merge or a commit; command is the text the words come from
NonInteractive(parts, command) ==
    IF parts = <<>> THEN parts
    ELSE IF parts[1] = "rebase" THEN
        IF /\ ~Member("--interactive", parts) /\ ~Member("-i", parts)
           /\ ~In("--strategy-option", command)
        THEN parts \o <<"--strategy-option", "ours">>
        ELSE parts
    ELSE IF parts[1] = "merge" THEN
        IF ~Member("--no-edit", parts) THEN Append(parts, "--no-edit") ELSE parts
    ELSE IF parts[1] = "commit" THEN
        IF ~Member("-m", parts) /\ ~Member("--message", parts)
        THEN parts \o <<"-m", "Automated commit">>
        ELSE parts
    ELSE parts

\* lines 87-89: the words when shlex.split raised ValueError
SimpleSplit(command) ==
    IF Words(command) # <<>> /\ Words(command)[1] = "git"
    THEN Tail(Words(command))
    ELSE Words(command)

\* the words execute_git_command hands to run_git_command, sh being
\* shlex.split of command
CommandParts(command, sh) ==
    IF sh.ok THEN NonInteractive(sh.parts, command) ELSE SimpleSplit(command)

\* execute_git_command: the repository afterwards and the string returned;
\* in_time = FALSE: the command is not over after the 30 s of run_git_command
execute_git_command(r, command, in_time) ==
    run_git_command(r, CommandParts(StripGit(command),
                                    ShlexSplit(StripGit(command))), in_time)

get_git_status(r) == run_git_command(r, <<"status">>, TRUE).out

get_git_branch(r) == run_git_command(r, <<"branch">>, TRUE).out

\* the name on the first line, marked or not
FirstLineBranch(text) == LastWord(FirstWord(Strip(text)))

\* _extract_current_branch
_extract_current_branch(text) ==
    LET nl == {i \in 1..Len(text) : CharAt(text, i) = "\n"}
        starts == {1} \cup {i + 1 : i \in nl}
        line(a) == SubSeq(text, a, SetMin({i \in nl : i >= a} \cup {Len(text) + 1}) - 1)
        marked == {a \in starts : StartsWith(Strip(line(a)), "*")}
    IN  IF marked = {} THEN "unknown"
        ELSE LET cur == Strip(Tail(Strip(line(SetMin(marked)))))
             IN  IF StartsWith(cur, "(") THEN "HEAD (detached)" ELSE cur

(***************************************************************************)
(* Outcome Verifier: _verify_command_success.                              *)
(***************************************************************************)
RECURSIVE RunProbes(_, _, _, _)
\* the loop over verification_commands; oks[i] tells whether the
\* environment lets probe i run.  acc = [repo, success, details, issues]
RunProbes(acc, probes, oks, i) ==
    IF i > Len(probes) THEN acc
    ELSE LET verify_cmd == probes[i]
             run == execute_git_command(acc.repo, verify_cmd, oks[i])
             result == run.out
             bad == In("error", Lower(result))
                    \/ In("fatal", Lower(result))
         IN  RunProbes([repo |-> run.repo,
                        success |-> IF bad THEN FALSE ELSE acc.success,
                        details |-> Put(acc.details, verify_cmd, result),
                        issues |-> IF bad
                                   THEN Append(acc.issues,
                                        "Verification command '" \o verify_cmd
                                        \o "' returned error: " \o result)
                                   ELSE acc.issues],
                       probes, oks, i + 1)

\* the command-specific check, applied to the outcome acc of the probes
SemanticCheck(acc, command) ==
    LET r == acc.repo
        failWith(issue) == [acc EXCEPT !.success = FALSE,
                                       !.issues = Append(@, issue)]
    IN  IF In("branch -d", command) \/ In("branch -D", command) THEN
            LET current_branches == get_git_branch(r)
                deleted_branch == LastWord(command)
            IN  IF In(deleted_branch, current_branches)
                THEN failWith("Branch " \o deleted_branch
                              \o " still exists after deletion attempt")
                ELSE acc
        ELSE IF In("checkout", command) \/ In("switch", command) THEN
            LET current_branch == _extract_current_branch(get_git_branch(r))
                expected_branch == LastWord(command)
            IN  IF current_branch # expected_branch
                THEN failWith("Expected to be on branch " \o expected_branch
                              \o ", but on " \o current_branch)
                ELSE acc
        ELSE IF In("add", command) THEN
            LET status_output == get_git_status(r)
            IN  IF ~In("Changes to be committed:", status_output)
                   /\ ~In("nothing to commit", status_output)
                THEN failWith("Files were not properly staged")
                ELSE acc
        ELSE IF In("commit", command) THEN
            LET status_output == get_git_status(r)
                log_result == Get(acc.details, "log -1", "")
            IN  IF In("Changes to be committed:", status_output)
                THEN failWith("Commit failed - changes are still staged")
                ELSE IF In("nothing to commit, working tree clean", status_output)
                        \/ In("Your branch is ahead of", status_output)
                THEN acc
                ELSE IF log_result = "" \/ ~In("commit", log_result)
                THEN failWith("Unable to verify commit was created")
                ELSE acc
        ELSE IF In("push", command) THEN
            LET status_output == get_git_status(r)
            IN  IF In("Your branch is ahead of", status_output)
                THEN failWith("Push failed - branch is still ahead of remote")
                ELSE acc
        ELSE acc

\* a verifier that reports the first reason only
VerifyFirstIssueOnly(r, command, verification_commands, oks) ==
    [SemanticCheck(RunProbes([repo |-> r, success |-> TRUE,
                              details |-> EmptyDict, issues |-> <<>>],
                             verification_commands, oks, 1), command)
        EXCEPT !.issues = IF @ = <<>> THEN @ ELSE <<Head(@)>>]

\* a verifier that sets success and writes no issue
VerifyNoIssue(r, command, verification_commands, oks) ==
    [SemanticCheck(RunProbes([repo |-> r, success |-> TRUE,
                              details |-> EmptyDict, issues |-> <<>>],
                             verification_commands, oks, 1), command)
        EXCEPT !.issues = <<>>]

\* a verifier that runs the probes and leaves the command-specific check out
VerifyProbesOnly(r, command, verification_commands, oks) ==
    RunProbes([repo |-> r, success |-> TRUE,
               details |-> EmptyDict, issues |-> <<>>],
              verification_commands, oks, 1)

\* r is the repository after the command ran.  Result: the repository after
\* the probes, and the verification_results dict (success, details, issues)
_verify_command_success(r, command, verification_commands, oks) ==
    SemanticCheck(RunProbes([repo |-> r, success |-> TRUE,
                             details |-> EmptyDict, issues |-> <<>>],
                            verification_commands, oks, 1),
                  command)

(***************************************************************************)
(* Planner: the parts of _analyzer that do not depend on the prompt text.  *)
(***************************************************************************)
\* any(keyword in text for keyword in keywords)
AnyIn(keywords, text) == \E k \in keywords : In(k, text)

\* lines 236-238; original_query is the request in lower case
ParseDelete(ctx, original_query, original_branch) ==
    IF /\ In("delete", original_query)
       /\ In("current branch", original_query) \/ In("this branch", original_query)
    THEN Put(Put(ctx, "target_branch_to_delete", original_branch),
             "delete_current_branch", TRUE)
    ELSE ctx

\* lines 241-245
ParseCreate(ctx, original_query, branch_match) ==
    IF In("create", original_query) /\ In("branch", original_query)
       /\ branch_match # ""
    THEN Put(ctx, "new_branch_name", branch_match)
    ELSE ctx

\* lines 233-245: the facts the first step reads from the original request
ParseWorkflowContext(ctx, original_query, original_branch) ==
    ParseCreate(ParseDelete(ctx, original_query, original_branch),
                original_query, BranchNameMatch(original_query))

action_keywords ==
    {"unstage", "stage", "commit", "push", "create", "delete", "checkout",
     "switch", "merge", "rebase", "add", "remove"}

is_action_request(original_query_lower) ==
    AnyIn(action_keywords, original_query_lower)

\* lines 259-262
force_action(workflow_step, original_query_lower) ==
    workflow_step = 0 /\ is_action_request(original_query_lower)

MakeAction(kind, command, reasoning, expected, probes) ==
    [action_type |-> kind, command |-> command, reasoning |-> reasoning,
     expected_outcome |-> expected, verification_commands |-> probes]

\* dict.setdefault
SetDefault(d, k, v) == IF Has(d, k) THEN d ELSE Put(d, k, v)

\* only the action kind given a default
FillKindOnly(obj, forced) ==
    SetDefault(obj, "action_type",
               IF forced THEN "execute_command" ELSE "provide_info")

\* lines 348-358: the defaults for the fields the reply leaves out
FillDefaults(obj, forced) ==
    SetDefault(SetDefault(SetDefault(SetDefault(SetDefault(obj,
        "action_type", IF forced THEN "execute_command" ELSE "provide_info"),
        "command", ""),
        "reasoning", "Generated from response"),
        "expected_outcome", ""),
        "verification_commands", <<"status">>)

\* lines 385-391
CreateBranchAction(name) ==
    MakeAction("execute_command", "checkout -b " \o name,
               "Creating new branch " \o name \o " as requested",
               "New branch " \o name \o " will be created and checked out",
               <<"branch">>)

\* the reply echoed whatever the request and the step
FallbackProvideInfo(text, original_query, workflow_step) ==
    MakeAction("provide_info", "", text, "", <<>>)

\* lines 363-416: the reply holds no JSON object
FallbackAction(text, original_query, workflow_step) ==
    IF force_action(workflow_step, original_query)
       \/ is_action_request(original_query)
    THEN IF workflow_step = 0 THEN
             IF In("unstage", original_query)
             THEN MakeAction("execute_command", "reset HEAD .",
                             "Unstaging all staged changes as requested",
                             "All staged changes will be unstaged", <<"status">>)
             ELSE IF In("create", original_query) /\ In("branch", original_query)
             THEN CreateBranchAction(branch_name(BranchNameMatch(original_query)))
             ELSE MakeAction("execute_command", "status",
                             "Checking repository status to determine next action",
                             "Repository status will be displayed", <<>>)
         ELSE MakeAction("provide_info", "", text, "", <<>>)
    ELSE MakeAction("provide_info", "", text, "", <<>>)

\* an unavailable oracle taken for a reply without JSON
PlanActionNoneAsText(reply, original_query, workflow_step) ==
    IF reply.kind = "json"
    THEN FillDefaults(reply.obj, force_action(workflow_step, original_query))
    ELSE FallbackAction("", original_query, workflow_step)

\* lines 328-416: the action built from the oracle's reply
PlanAction(reply, original_query, workflow_step) ==
    IF reply.kind = "none"
    THEN MakeAction("end", "", "API service unavailable. Please try again.",
                    "", <<>>)
    ELSE IF reply.kind = "json"
    THEN FillDefaults(reply.obj, force_action(workflow_step, original_query))
    ELSE FallbackAction(reply.text, original_query, workflow_step)

(***************************************************************************)
(* Lines 337-346: from the text of the reply to the reply PlanAction       *)
(* reads.  json.loads is given for the JSON the replies drawn below are    *)
(* written in: objects whose keys are strings and whose values are strings *)
(* without escapes or lists of such strings.                               *)
(***************************************************************************)
\* the character of s at i, "" past its end
At(s, i) == IF i >= 1 /\ i <= Len(s) THEN CharAt(s, i) ELSE ""

RECURSIVE SkipSpace(_, _)
\* the first index from i on that holds no white space
SkipSpace(s, i) ==
    IF i <= Len(s) /\ IsSpace(CharAt(s, i)) THEN SkipSpace(s, i + 1) ELSE i

\* json.JSONDecodeError
NoParse == [ok |-> FALSE, pos |-> 0, val |-> <<>>]

\* a value read, and the index after it
Parse(val, pos) == [ok |-> TRUE, pos |-> pos, val |-> val]

RECURSIVE StringEnd(_, _)
\* the index of the next double quote from i on, 0 when there is none
StringEnd(s, i) ==
    IF i > Len(s) THEN 0
    ELSE IF CharAt(s, i) = "\"" THEN i
    ELSE StringEnd(s, i + 1)

\* the string that opens at i and closes at j
JsonStringTo(s, i, j) ==
    IF j = 0 THEN NoParse ELSE Parse(SubSeq(s, i + 1, j - 1), j + 1)

JsonString(s, i) ==
    IF At(s, i) # "\"" THEN NoParse ELSE JsonStringTo(s, i, StringEnd(s, i + 1))

RECURSIVE JsonItems(_, _, _)
\* after an item of a list: its end or a comma and the next item
JsonItemsNext(s, i, acc) ==
    IF At(s, i) = "]" THEN Parse(acc, i + 1)
    ELSE IF At(s, i) = "," THEN JsonItems(s, SkipSpace(s, i + 1), acc)
    ELSE NoParse

JsonItem(s, r, acc) ==
    IF ~r.ok THEN NoParse
    ELSE JsonItemsNext(s, SkipSpace(s, r.pos), Append(acc, r.val))

\* the items of a list from i on, after the items acc
JsonItems(s, i, acc) == JsonItem(s, JsonString(s, i), acc)

\* the list that opens before i
JsonArray(s, i) ==
    IF At(s, i) = "]" THEN Parse(<<>>, i + 1) ELSE JsonItems(s, i, <<>>)

JsonValue(s, i) ==
    IF At(s, i) = "\"" THEN JsonString(s, i)
    ELSE IF At(s, i) = "[" THEN JsonArray(s, SkipSpace(s, i + 1))
    ELSE NoParse

RECURSIVE JsonPairs(_, _, _)
\* after a pair of an object: its end or a comma and the next pair
JsonPairsNext(s, i, acc) ==
    IF At(s, i) = "}" THEN Parse(acc, i + 1)
    ELSE IF At(s, i) = "," THEN JsonPairs(s, SkipSpace(s, i + 1), acc)
    ELSE NoParse

JsonPairValue(s, key, r, acc) ==
    IF ~r.ok THEN NoParse
    ELSE JsonPairsNext(s, SkipSpace(s, r.pos), Put(acc, key, r.val))

JsonPairColon(s, key, i, acc) ==
    IF At(s, i) # ":" THEN NoParse
    ELSE JsonPairValue(s, key, JsonValue(s, SkipSpace(s, i + 1)), acc)

JsonPairKey(s, k, acc) ==
    IF ~k.ok THEN NoParse
    ELSE JsonPairColon(s, k.val, SkipSpace(s, k.pos), acc)

\* the pairs of an object from i on, after the pairs acc
JsonPairs(s, i, acc) == JsonPairKey(s, JsonString(s, i), acc)

\* the object that opens before i
JsonObject(s, i) ==
    IF At(s, i) = "}" THEN Parse(EmptyDict, i + 1) ELSE JsonPairs(s, i, EmptyDict)

\* the text is one value and white space, or the parse fails ("Extra data")
JsonWhole(s, r) ==
    IF r.ok /\ SkipSpace(s, r.pos) > Len(s) THEN r ELSE NoParse

\* line 346: json.loads of a text that line 343 matched, so that opens
\* with a brace
json_loads(s) ==
    IF At(s, 1) # "{" THEN NoParse
    ELSE JsonWhole(s, JsonObject(s, SkipSpace(s, 2)))

\* the text of s from the first of opens to the last of closes
Span(s, opens, closes) ==
    IF opens = {} \/ closes = {} THEN ""
    ELSE IF SetMin(opens) > SetMax(closes) THEN ""
    ELSE SubSeq(s, SetMin(opens), SetMax(closes))

\* the indices of s that hold the character c
Indices(s, c) == {i \in 1..Len(s) : CharAt(s, i) = c}

\* line 343: re.search(r'\{.*\}', response_clean, re.DOTALL), group 0, ""
\* when nothing matches: .* is greedy and DOTALL lets it cross lines, so the
\* match runs from the first opening brace to the last closing brace
json_match(response_clean) ==
    Span(response_clean, Indices(response_clean, "{"), Indices(response_clean, "}"))

\* lines 344-361 and the except clause of 363: the object read, or the
\* reply as text when there is no match or json.loads fails
Loaded(response, r) ==
    IF r.ok THEN [kind |-> "json", obj |-> r.val]
    ELSE [kind |-> "text", text |-> response]

Matched(response, json_str) ==
    IF json_str = "" THEN [kind |-> "text", text |-> response]
    ELSE Loaded(response, json_loads(json_str))

\* lines 328 and 339-346: None, or what the text of the reply is read as
ReadResponse(response) ==
    IF response.kind = "none" THEN [kind |-> "none"]
    ELSE Matched(response.text, json_match(Strip(response.text)))

\* _router without its last branch
RouterNoEnd(act) ==
    IF act.action_type = "execute_command" THEN "command_executor"
    ELSE "info_provider"

\* _router
_router(act) ==
    IF act.action_type = "execute_command" THEN "command_executor"
    ELSE IF act.action_type = "provide_info" THEN "info_provider"
    ELSE "end"

(***************************************************************************)
(* Continuation Decider: _should_continue.                                 *)
(***************************************************************************)
operation_keywords ==
    {"switch", "checkout", "pull", "push", "merge", "rebase", "create",
     "delete", "add", "stage", "commit", "unstage", "stash", "reset",
     "cherry-pick", "tag", "fetch"}

\* any(m in cmd for cmd in executed_commands), for some m of markers
AnyCommand(executed_commands, markers) ==
    \E i \in 1..Len(executed_commands) :
        \E m \in markers : In(m, executed_commands[i])

\* lines 681-684
mentioned_operations(original_query) ==
    {k \in operation_keywords : In(k, original_query)}

\* lines 688-774: workflow_incomplete
WorkflowIncomplete(original_query, executed_commands, workflow_context) ==
    IF /\ In("switch", original_query) \/ In("checkout", original_query)
       /\ In("pull", original_query)
       /\ In("merge", original_query)
    THEN \/ ~AnyCommand(executed_commands, {"checkout", "switch"})
         \/ ~AnyCommand(executed_commands, {"pull"})
         \/ ~AnyCommand(executed_commands, {"merge"})
    ELSE IF In("pull", original_query) /\ In("merge", original_query)
    THEN \/ ~AnyCommand(executed_commands, {"pull"})
         \/ ~AnyCommand(executed_commands, {"merge"})
    ELSE IF /\ In("stage", original_query) \/ In("add", original_query)
            /\ In("commit", original_query)
    THEN IF \/ ~AnyCommand(executed_commands, {"add"})
            \/ ~AnyCommand(executed_commands, {"commit"})
         THEN TRUE
         ELSE /\ In("push", original_query)
              /\ ~AnyCommand(executed_commands, {"push"})
    ELSE IF In("create", original_query) /\ In("branch", original_query)
    THEN /\ ~AnyCommand(executed_commands, {"checkout -b", "switch -c"})
         /\ ~Get(workflow_context, "new_branch_created", FALSE)
    ELSE IF Get(workflow_context, "delete_current_branch", FALSE)
    THEN ~Get(workflow_context, "branch_deleted", FALSE)
    ELSE Len(executed_commands) < Cardinality(mentioned_operations(original_query))

\* line 666
ExecutedCommands(sess) ==
    [i \in 1..Len(sess.execution_history) |-> sess.execution_history[i].command]

\* the failed verification overlooked
NeverFailed(last_verification) == FALSE

\* lines 777-778
command_failed(last_verification) == ~Get(last_verification, "success", TRUE)

\* _should_continue: the node that follows command_executor
_should_continue(stopped, act, sess, workflow_context, last_verification) ==
    IF stopped THEN "responder"
    ELSE IF act.action_type = "execute_command" THEN
        IF \/ WorkflowIncomplete(Lower(sess.original_query),
                                 ExecutedCommands(sess), workflow_context)
           \/ command_failed(last_verification)
        THEN "analyzer"
        ELSE "responder"
    ELSE "responder"

(***************************************************************************)
(* What the oracle may answer.                                             *)
(***************************************************************************)
\* generate_response(prompt): None, prose without a JSON object, or prose
\* holding a JSON object (given as the dict json.loads returns)
OracleReplies(q) ==
    {[kind |-> "none"], [kind |-> "text", text |-> "I suggest checking the status."]}
    \cup UNION {{[kind |-> "json",
                  obj |-> MakeAction("execute_command", c, "next step",
                                     "it works", p)] : p \in OracleProbes(c)} :
                c \in OracleCommands(q)}
    \cup {[kind |-> "json", obj |-> o] :
            o \in {MakeAction("provide_info", "", "nothing to run", "", <<>>),
                   MakeAction("end", "", "all done", "", <<>>),
                   MakeAction("finish", "", "all done", "", <<>>),
                   MakeAction("execute_command", "", "no command", "", <<>>),
                   EmptyDict,
                   [command |-> CHOOSE c \in OracleCommands(q) : TRUE]}}

(***************************************************************************)
(* State.                                                                  *)
(***************************************************************************)
VARIABLES
    request,              \* what the user asks for in this repository
    pc,                   \* the node about to run, "idle" before a run, "end" after
    clock,                \* int(time.time())
    disk,                 \* .git/gitagent_sessions: session_id -> saved record
    repo,                 \* the repository
    auto_approve,         \* self.auto_approve of the running agent
    session,              \* state["session"]
    action,               \* state["action"]
    execution_stopped,    \* state["execution_stopped"]
    workflow_step,        \* state["workflow_step"]
    workflow_context,     \* state["workflow_context"]
    verification_results, \* state["verification_results"]
    continue_session,     \* answer to "continue the existing workflow?"
    confirmed,            \* answer to "execute this command?" in the last step
    continue_execution,   \* answer to "continue despite these issues?"
    decided,              \* what _should_continue last did
    last_run,             \* the command line 469 ran in the last step
    nexec,                \* commands run by line 469 so far
    response,             \* what generate_response last returned, by kind
    call,                 \* a command executed and verified on its own
    procs,                \* process_query invocations running side by side
    groq,                 \* a GroqAPIService, the time and its last make_api_call
    cli                   \* a run of the command-line entry point

vars == <<request, pc, clock, disk, repo, auto_approve, session, action,
          execution_stopped, workflow_step, workflow_context,
          verification_results, continue_session, confirmed,
          continue_execution, decided, last_run, nexec, response, call,
          procs, groq, cli>>

NoSession ==
    [session_id |-> 0, original_query |-> "", original_branch |-> "",
     workflow_context |-> EmptyDict, execution_history |-> <<>>,
     current_step |-> 0, status |-> "none"]

NoAction == MakeAction("", "", "", "", <<>>)

NoRun == [ran |-> FALSE, command |-> "", on_branch |-> "", result |-> ""]

NotDecided == [rule |-> "none", next |-> "none"]

NoCall == [fn |-> "none"]

NoProcs == <<>>

NoService == [at |-> "none"]

NoCli == [at |-> "none"]

Init ==
    /\ request \in Queries
    /\ pc = "idle"
    /\ clock = 1
    /\ disk = EmptyDict
    /\ repo = [current |-> "feature", branches |-> {"main", "feature"},
               staged |-> TRUE, dirty |-> TRUE, ahead |-> FALSE]
    /\ auto_approve = FALSE
    /\ session = NoSession
    /\ action = NoAction
    /\ execution_stopped = FALSE
    /\ workflow_step = 0
    /\ workflow_context = EmptyDict
    /\ verification_results = EmptyDict
    /\ continue_session = "unasked"
    /\ confirmed = "unasked"
    /\ continue_execution = "unasked"
    /\ decided = NotDecided
    /\ last_run = NoRun
    /\ nexec = 0
    /\ response = "unasked"
    /\ call = NoCall
    /\ procs = NoProcs
    /\ groq = NoService
    /\ cli = NoCli

\* a save that writes nothing
SaveNothing(d, sess) == d

\* _save_session
_save_session(d, sess) == Put(d, sess.session_id, sess)

\* _create_session, without the save
_create_session(query, original_branch) ==
    [session_id |-> clock, original_query |-> query,
     original_branch |-> original_branch, workflow_context |-> EmptyDict,
     execution_history |-> <<>>, current_step |-> 0, status |-> "active"]

\* a scan that finds nothing
FindNothing(d) == {0}

\* _find_active_session: the records the directory scan can return
\* (glob order is not fixed); {0} stands for None
_find_active_session(d) ==
    LET active == {id \in DOMAIN d : d[id].status = "active"}
    IN  IF active = {} THEN {0} ELSE active

Answer(b) == IF b THEN "yes" ELSE "no"

(***************************************************************************)
(* The clock advances by a second.  Only _create_session reads it, so the  *)
(* seconds that pass while a run is under way are counted when it ends.    *)
(***************************************************************************)
Tick ==
    /\ pc \in {"idle", "end"}
    /\ clock < MaxClock
    /\ clock' = clock + 1
    /\ UNCHANGED <<request, pc, disk, repo, auto_approve, session, action,
                   execution_stopped, workflow_step, workflow_context,
                   verification_results, continue_session, confirmed,
                   continue_execution, decided, last_run, nexec, response,
                   call, procs, groq, cli>>

(***************************************************************************)
(* process_query up to agent.invoke: a new process, with its own           *)
(* auto-approve flag, finds or creates the session and builds the state.   *)
(***************************************************************************)
\* lines 862-884: the state the graph is invoked with
Invoke(sess, d, aa, asked) ==
    /\ auto_approve' = aa
    /\ continue_session' = asked
    /\ disk' = d
    /\ session' = sess
    /\ action' = NoAction
    /\ execution_stopped' = FALSE
    /\ workflow_step' = sess.current_step
    /\ workflow_context' = sess.workflow_context
    /\ verification_results' = EmptyDict
    /\ confirmed' = "unasked"
    /\ continue_execution' = "unasked"
    /\ decided' = NotDecided
    /\ last_run' = NoRun
    /\ response' = "unasked"
    /\ pc' = "analyzer"

\* lines 858-860: a fresh session for the request, saved
StartSession(d, sess, aa, asked) == Invoke(sess, _save_session(d, sess), aa, asked)

ProcessQuery ==
    /\ pc \in {"idle", "end"}
    /\ UNCHANGED <<request, clock, repo, nexec, call, procs, groq, cli>>
    /\ \E aa \in BOOLEAN, answer \in BOOLEAN,
          found \in _find_active_session(disk),
          fresh \in {_create_session(request,
                                     _extract_current_branch(get_git_branch(repo)))} :
        IF found = 0 THEN StartSession(disk, fresh, aa, "unasked")
        ELSE IF aa THEN Invoke(disk[found], disk, aa, "unasked")
        ELSE IF answer THEN Invoke(disk[found], disk, aa, "yes")
        ELSE StartSession(_save_session(disk, [disk[found] EXCEPT
                                                  !.status = "completed"]),
                          fresh, aa, "no")

(***************************************************************************)
(* Node analyzer, followed by _router.                                     *)
(***************************************************************************)
\* the answers given to the previous node and its decision are locals of
\* that node: out of scope once the next node runs
ForgetLocals ==
    /\ continue_session' = "unasked"
    /\ confirmed' = "unasked"
    /\ continue_execution' = "unasked"
    /\ decided' = NotDecided
    /\ last_run' = NoRun

\* lines 232-249: the first step parses the request and saves the session
FirstStep(step, ctx) == step = 0 /\ DOMAIN ctx = {}

\* the request parsed again at every step, against the branch checked out then
AnalyzerContextRebound(step, ctx, sess) ==
    ParseWorkflowContext(ctx, Lower(sess.original_query),
                         _extract_current_branch(get_git_branch(repo)))

AnalyzerContext(step, ctx, sess) ==
    IF FirstStep(step, ctx)
    THEN ParseWorkflowContext(ctx, Lower(sess.original_query), sess.original_branch)
    ELSE ctx

Analyzer ==
    /\ pc = "analyzer"
    /\ \E reply \in OracleReplies(session.original_query),
          ctx \in {AnalyzerContext(workflow_step, workflow_context, session)} :
       \E act \in {PlanAction(reply, Lower(session.original_query), workflow_step)} :
        /\ workflow_context' = ctx
        /\ session' = IF FirstStep(workflow_step, workflow_context)
                      THEN [session EXCEPT !.workflow_context = ctx]
                      ELSE session
        /\ disk' = IF FirstStep(workflow_step, workflow_context)
                   THEN _save_session(disk, [session EXCEPT !.workflow_context = ctx])
                   ELSE disk
        /\ action' = act
        /\ response' = reply.kind
        /\ pc' = _router(act)
    /\ ForgetLocals
    /\ UNCHANGED <<request, clock, repo, auto_approve, execution_stopped,
                   workflow_step, verification_results, nexec, call, procs, groq, cli>>

(***************************************************************************)
(* Node command_executor, followed by _should_continue.                    *)
(***************************************************************************)
\* the context replaced by the fact of the command just verified
RecordFactAlone(ctx, command, success) ==
    IF ~success THEN ctx
    ELSE IF StartsWith(command, "add") THEN Put(EmptyDict, "changes_staged", TRUE)
    ELSE IF StartsWith(command, "commit") THEN Put(EmptyDict, "changes_committed", TRUE)
    ELSE IF StartsWith(command, "push") THEN Put(EmptyDict, "changes_pushed", TRUE)
    ELSE ctx

\* the fact added whatever the verification said
RecordFactUnverified(ctx, command, success) ==
    IF In("branch -d", command) \/ In("branch -D", command)
    THEN Put(ctx, "branch_deleted", TRUE)
    ELSE IF In("checkout -b", command) \/ In("switch -c", command)
    THEN Put(ctx, "new_branch_created", TRUE)
    ELSE IF StartsWith(command, "add") THEN Put(ctx, "changes_staged", TRUE)
    ELSE IF StartsWith(command, "commit") THEN Put(ctx, "changes_committed", TRUE)
    ELSE IF StartsWith(command, "push") THEN Put(ctx, "changes_pushed", TRUE)
    ELSE ctx

\* lines 525-536: the fact a verified command adds to the workflow context
RecordFact(ctx, command, success) ==
    IF ~success THEN ctx
    ELSE IF In("branch -d", command) \/ In("branch -D", command)
    THEN Put(ctx, "branch_deleted", TRUE)
    ELSE IF In("checkout -b", command) \/ In("switch -c", command)
    THEN Put(ctx, "new_branch_created", TRUE)
    ELSE IF StartsWith(command, "add") THEN Put(ctx, "changes_staged", TRUE)
    ELSE IF StartsWith(command, "commit") THEN Put(ctx, "changes_committed", TRUE)
    ELSE IF StartsWith(command, "push") THEN Put(ctx, "changes_pushed", TRUE)
    ELSE ctx

\* which rule of _should_continue answers
DeciderRule(stopped, act) ==
    IF stopped THEN "stopped"
    ELSE IF act.action_type = "execute_command" THEN "workflow"
    ELSE "not_command"

\* the state the node leaves behind; then _should_continue picks the next node
ExecutorDone(sess, d, r, stopped, step, ctx, vres, ans1, ans2, ran) ==
    /\ session' = sess
    /\ disk' = d
    /\ repo' = r
    /\ execution_stopped' = stopped
    /\ workflow_step' = step
    /\ workflow_context' = ctx
    /\ verification_results' = vres
    /\ confirmed' = ans1
    /\ continue_execution' = ans2
    /\ last_run' = ran
    /\ nexec' = IF ran.ran THEN nexec + 1 ELSE nexec
    /\ \E next \in {_should_continue(stopped, action, sess, ctx, vres)} :
        /\ decided' = [rule |-> DeciderRule(stopped, action), next |-> next]
        /\ pc' = next

\* lines 459-465: the user declines the command
Declined(sess) ==
    ExecutorDone(sess, _save_session(disk, sess), repo, TRUE, workflow_step,
                 workflow_context, verification_results, "no", "unasked", NoRun)

\* the verification_results dict of a verifier outcome
VerificationResults(ver) ==
    [success |-> ver.success, details |-> ver.details, issues |-> ver.issues]

\* the history replaced by the entry of the command just run
RecordedAlone(sess, step, command, result, vres) ==
    [sess EXCEPT
        !.execution_history =
            <<[step |-> step + 1, command |-> command, result |-> result,
               verification_success |-> vres.success,
               verification_details |-> vres]>>,
        !.current_step = step + 1]

\* the history gains an entry and current_step stays
RecordedUncounted(sess, step, command, result, vres) ==
    [sess EXCEPT
        !.execution_history =
            Append(@, [step |-> step + 1, command |-> command, result |-> result,
                       verification_success |-> vres.success,
                       verification_details |-> vres])]

\* lines 479-491: the history gains an entry and current_step moves on
Recorded(sess, step, command, result, vres) ==
    [sess EXCEPT
        !.execution_history =
            Append(@, [step |-> step + 1, command |-> command, result |-> result,
                       verification_success |-> vres.success,
                       verification_details |-> vres]),
        !.current_step = step + 1]

\* what the user was asked before line 469 ran the command
Confirmed(answer1) == IF auto_approve THEN "unasked" ELSE Answer(answer1)

\* lines 513-518: the user stops after a failed verification
Stopped(sess, r, ran, answer1) ==
    ExecutorDone(sess, _save_session(disk, sess), r, TRUE, workflow_step,
                 workflow_context, verification_results,
                 Confirmed(answer1), "no", ran)

\* lines 520-546: the step is counted, the context updated, the session saved
Proceeded(sess, r, vres, ran, answer1) ==
    ExecutorDone(sess, _save_session(disk, sess), r, execution_stopped,
                 workflow_step + 1, sess.workflow_context, vres,
                 Confirmed(answer1),
                 IF ~vres.success /\ ~auto_approve THEN "yes" ELSE "unasked",
                 ran)

\* lines 469-546, for the outcome run of the command and ver of its verification
Executed(command, run, ver, answer1, answer2) ==
    \E sess1 \in {Recorded(session, workflow_step, command, run.out,
                            VerificationResults(ver))},
       ran \in {[ran |-> TRUE, command |-> command, on_branch |-> repo.current,
                 result |-> run.out]} :
        IF ~ver.success /\ ~auto_approve /\ ~answer2
        THEN Stopped([sess1 EXCEPT !.status = "failed"], ver.repo, ran, answer1)
        ELSE Proceeded([sess1 EXCEPT !.workflow_context =
                            RecordFact(workflow_context, command, ver.success)],
                       ver.repo, VerificationResults(ver), ran, answer1)

\* the confirmation asked and its answer ignored
MayExecuteAnyway(aa, answer) == TRUE

\* lines 453-459: the command runs when auto-approve is on or the user says yes
MayExecute(aa, answer) == aa \/ answer

CommandExecutor ==
    /\ pc = "command_executor"
    /\ UNCHANGED <<request, clock, auto_approve, action, continue_session,
                   response, call, procs, groq, cli>>
    /\ IF action.action_type # "execute_command" \/ action.command = ""
       THEN \* line 430: nothing to run
            ExecutorDone(session, disk, repo, execution_stopped, workflow_step,
                         workflow_context, verification_results,
                         "unasked", "unasked", NoRun)
       ELSE \E command \in {StripGit(action.command)} :
            \E answer1 \in BOOLEAN, answer2 \in BOOLEAN,
               ok \in IF MayTimeOut(command) THEN BOOLEAN ELSE {TRUE},
               oks \in ProbeOutcomes(action.verification_commands) :
                IF ~MayExecute(auto_approve, answer1)
                THEN Declined([session EXCEPT !.status = "paused"])
                ELSE /\ nexec < MaxExec
                     /\ \E run \in {execute_git_command(repo, command, ok)} :
                        \E ver \in {_verify_command_success(
                                        run.repo, command,
                                        action.verification_commands, oks)} :
                            Executed(command, run, ver, answer1, answer2)

(***************************************************************************)
(* Node info_provider.                                                     *)
(***************************************************************************)
InfoProvider ==
    /\ pc = "info_provider"
    /\ pc' = "responder"
    /\ UNCHANGED <<request, clock, disk, repo, auto_approve, session, action,
                   execution_stopped, workflow_step, workflow_context,
                   verification_results, continue_session, confirmed,
                   continue_execution, decided, last_run, nexec, response,
                   call, procs, groq, cli>>

(***************************************************************************)
(* Node responder.                                                         *)
(***************************************************************************)
\* the status set without looking at execution_stopped
FinalStatusAlwaysCompleted(stopped, status) == "completed"

\* lines 635-638: the status the node leaves in the session
FinalStatus(stopped, status) == IF ~stopped THEN "completed" ELSE status

Responder ==
    /\ pc = "responder"
    /\ session' = [session EXCEPT !.status = FinalStatus(execution_stopped, @)]
    /\ disk' = IF ~execution_stopped THEN _save_session(disk, session') ELSE disk
    /\ pc' = "end"
    /\ ForgetLocals
    /\ UNCHANGED <<request, clock, repo, auto_approve, action, execution_stopped,
                   workflow_step, workflow_context, verification_results, nexec,
                   response, call, procs, groq, cli>>

Next ==
    \/ Tick
    \/ ProcessQuery
    \/ Analyzer
    \/ CommandExecutor
    \/ InfoProvider
    \/ Responder

Spec == Init /\ [][Next]_vars

(***************************************************************************)
(* One run of process_query on a fresh repository.  agent.invoke runs the  *)
(* node that is due until the graph reaches its end.                       *)
(***************************************************************************)
\* the first request in the repository
FirstQuery == pc = "idle" /\ ProcessQuery

RunNext ==
    \/ FirstQuery
    \/ Analyzer
    \/ CommandExecutor
    \/ InfoProvider
    \/ Responder

\* a node is due and can run: command_executor cannot once a behaviour
\* holds MaxExec commands, unless it returns at line 430 or the user declines
Due ==
    \/ pc \in {"analyzer", "info_provider", "responder"}
    \/ /\ pc = "command_executor"
       /\ \/ action.action_type # "execute_command"
          \/ action.command = ""
          \/ ~auto_approve
          \/ nexec < MaxExec

\* the node that is due runs and hands over to the next
NodeStep ==
    /\ Due
    /\ pc' \in {"analyzer", "command_executor", "info_provider", "responder",
                "end"}
    /\ pc' # pc

\* agent.invoke does not stop while a node is due
FairSpec == Init /\ [][RunNext]_vars /\ WF_pc(NodeStep)

(***************************************************************************)
(* One command executed and then verified, as lines 469-476 do, on any     *)
(* repository and for any command text: execute_git_command and            *)
(* _verify_command_success on their own.                                   *)
(***************************************************************************)
\* the commands handed to execute_git_command
Commands ==
    {"status", "add .", "commit", "commit -m wip", "commit --amend",
     "commit -m \"add tests\"", "commit -am wip", "commit --message=wip",
     "merge feature", "merge --no-edit feature", "merge \"feature",
     "rebase main", "rebase -i main", "rebase --interactive main",
     "git rebase main --strategy-option theirs", "branch -D dev",
     "branch -d develop", "checkout dev", "checkout -b dev", "push", "pull",
     "frobnicate", ""}

\* the probe lists handed to _verify_command_success: the
\* verification_commands of the oracle's reply, whatever they are
ProbeLists ==
    {<<>>, <<"status">>, <<"branch">>, <<"status", "log -1">>,
     <<"rev-parse --verify dev">>,
     <<"rev-parse --verify dev", "rev-parse --verify develop">>,
     <<"checkout main">>}

\* the repositories the command may find
Repos ==
    {[current |-> c, branches |-> bs, staged |-> st, dirty |-> di, ahead |-> ah] :
        c \in {"feature", "main"},
        bs \in {b \in SUBSET Branches : "main" \in b},
        st \in BOOLEAN, di \in BOOLEAN, ah \in BOOLEAN}

UnitInit ==
    /\ request \in {"what is the status"}
    /\ pc = "idle"
    /\ clock = 1
    /\ disk = EmptyDict
    /\ repo \in {r \in Repos : r.current \in r.branches}
    /\ auto_approve = FALSE
    /\ session = NoSession
    /\ action = NoAction
    /\ execution_stopped = FALSE
    /\ workflow_step = 0
    /\ workflow_context = EmptyDict
    /\ verification_results = EmptyDict
    /\ continue_session = "unasked"
    /\ confirmed = "unasked"
    /\ continue_execution = "unasked"
    /\ decided = NotDecided
    /\ last_run = NoRun
    /\ nexec = 0
    /\ response = "unasked"
    /\ call = NoCall
    /\ procs = NoProcs
    /\ groq = NoService
    /\ cli = NoCli

\* what the two functions leave alone
UnitFrame ==
    UNCHANGED <<request, pc, clock, disk, auto_approve, session, action,
                execution_stopped, workflow_step, workflow_context,
                verification_results, continue_session, confirmed,
                continue_execution, decided, last_run, nexec, response, procs, groq, cli>>

\* the call of execute_git_command(command), the words it hands to
\* run_git_command, the outcome p of the git process (exit code -9 and no
\* output when it was killed after 30 s) and the string returned
Called(command, parts, p, in_time, run) ==
    /\ call' = [fn |-> "execute_git_command", command |-> command,
                parts |-> parts, in_time |-> in_time,
                code |-> IF in_time THEN p.code ELSE -9,
                stdout |-> IF in_time THEN p.stdout ELSE "",
                stderr |-> IF in_time THEN p.stderr ELSE "",
                result |-> run.out]
    /\ repo' = run.repo

\* line 469
Execute ==
    /\ call.fn = "none"
    /\ \E command \in Commands, in_time \in BOOLEAN :
        \E parts \in {CommandParts(StripGit(command),
                                   ShlexSplit(StripGit(command)))} :
            Called(command, parts, GitProcess(repo, parts), in_time,
                   execute_git_command(repo, command, in_time))
    /\ UnitFrame

\* lines 472-476, for the command that has just run
Verify ==
    /\ call.fn = "execute_git_command"
    /\ \E probes \in ProbeLists :
       \E ver \in {_verify_command_success(
                       repo, call.command, probes,
                       [i \in 1..Len(probes) |-> TRUE])} :
        /\ call' = [fn |-> "_verify_command_success", command |-> call.command,
                    probes |-> probes, result |-> VerificationResults(ver)]
        /\ repo' = ver.repo
    /\ UnitFrame

\* `git branch` with HEAD detached: the marked line names no branch
DetachedText(r) ==
    "* (HEAD detached at 1a2b3c4)\n" \o BranchText([r EXCEPT !.current = ""])

\* the texts _extract_current_branch is given: the branches of the snapshot
\* on a branch or with HEAD detached, the error get_git_branch returns outside
\* a repository, a listing without a marked line, a lone mark, the empty text
BranchListings(r) ==
    {get_git_branch(r), DetachedText(r), "",
     "Error: fatal: not a git repository (or any of the parent directories): .git",
     BranchText([r EXCEPT !.current = ""]), "*", "  *  \n"}

\* line 229, and again: the function reads nothing but its argument
Extract ==
    /\ call.fn = "none"
    /\ \E text \in BranchListings(repo) :
        call' = [fn |-> "_extract_current_branch", text |-> text,
                 result |-> _extract_current_branch(text),
                 again |-> _extract_current_branch(text)]
    /\ repo' = repo
    /\ UnitFrame

UnitNext == Execute \/ Verify \/ Extract

UnitSpec == UnitInit /\ [][UnitNext]_vars

(***************************************************************************)
(* Two process_query invocations in two processes on one repository, up to *)
(* agent.invoke (lines 840-869): each scans the session directory, asks    *)
(* about the active session it found, and creates its session, and the     *)
(* steps of the two interleave.                                            *)
(***************************************************************************)
Procs == {1, 2}

\* the requests the two processes are started with
RaceQueries == {"stage and commit", "pull and merge"}

\* a session an earlier invocation left active
EarlierSession ==
    [session_id |-> 1, original_query |-> "create branch dev",
     original_branch |-> "feature", workflow_context |-> EmptyDict,
     execution_history |-> <<>>, current_step |-> 0, status |-> "active"]

RaceInit ==
    /\ request \in {"stage and commit"}
    /\ pc = "idle"
    /\ clock = 1
    /\ disk \in {EmptyDict, _save_session(EmptyDict, EarlierSession)}
    /\ repo = [current |-> "feature", branches |-> {"main", "feature"},
               staged |-> TRUE, dirty |-> TRUE, ahead |-> FALSE]
    /\ auto_approve = FALSE
    /\ session = NoSession
    /\ action = NoAction
    /\ execution_stopped = FALSE
    /\ workflow_step = 0
    /\ workflow_context = EmptyDict
    /\ verification_results = EmptyDict
    /\ continue_session = "unasked"
    /\ confirmed = "unasked"
    /\ continue_execution = "unasked"
    /\ decided = NotDecided
    /\ last_run = NoRun
    /\ nexec = 0
    /\ response = "unasked"
    /\ call = NoCall
    /\ procs \in [Procs -> {[at |-> "start", query |-> q, auto_approve |-> aa,
                            found |-> NoSession, session |-> NoSession] :
                           q \in RaceQueries, aa \in BOOLEAN}]
    /\ groq = NoService
    /\ cli = NoCli

\* what the start of process_query leaves alone
RaceFrame ==
    UNCHANGED <<request, pc, clock, repo, auto_approve, session, action,
                execution_stopped, workflow_step, workflow_context,
                verification_results, continue_session, confirmed,
                continue_execution, decided, last_run, nexec, response, call,
                groq, cli>>

\* line 840: the scan of the directory
Scan(p) ==
    /\ procs[p].at = "start"
    /\ \E found \in _find_active_session(disk) :
        procs' = [procs EXCEPT
                    ![p].at = IF found = 0 THEN "create" ELSE "found",
                    ![p].found = IF found = 0 THEN NoSession ELSE disk[found]]
    /\ disk' = disk
    /\ RaceFrame

\* lines 842-857 and 864-867: auto-approve is on or the user says yes, and
\* the session found is resumed
Resume(p) ==
    /\ procs[p].at = "found"
    /\ procs' = [procs EXCEPT ![p].at = "invoked",
                              ![p].session = procs[p].found]
    /\ disk' = disk
    /\ RaceFrame

\* lines 853-856: the user declines; the session found is saved as completed
Supersede(p) ==
    /\ procs[p].at = "found"
    /\ ~procs[p].auto_approve
    /\ disk' = _save_session(disk, [procs[p].found EXCEPT !.status = "completed"])
    /\ procs' = [procs EXCEPT ![p].at = "create"]
    /\ RaceFrame

\* lines 859-869: the process creates its session
Create(p) ==
    /\ procs[p].at = "create"
    /\ \E fresh \in {_create_session(procs[p].query,
                                    _extract_current_branch(get_git_branch(repo)))} :
        /\ disk' = _save_session(disk, fresh)
        /\ procs' = [procs EXCEPT ![p].at = "invoked", ![p].session = fresh]
    /\ RaceFrame

RaceNext ==
    \/ Tick
    \/ \E p \in Procs : Scan(p)
    \/ \E p \in Procs : Resume(p)
    \/ \E p \in Procs : Supersede(p)
    \/ \E p \in Procs : Create(p)

RaceSpec == RaceInit /\ [][RaceNext]_vars

(***************************************************************************)
(* GroqAPIService.  A service holds its keys, each with the flag and the   *)
(* time mark_key_exhausted sets, and the index of the key in use.  Time is *)
(* in seconds; 0 stands for None in last_error_time.                       *)
(***************************************************************************)
\* keys configured, at most
MaxKeys == 2

\* calls of make_api_call on one service, at most
MaxCalls == 3

\* the latest time a wait between two calls may end
MaxNow == 7300

\* line 68: the cool-down of an exhausted key, in seconds
Cooldown == 3600

\* line 87: the default of max_retries, which generate_response uses
max_retries == 3

\* what one requests.post can come to: status 200 with the expected body,
\* status 200 with a body without choices[0].message.content, 429, 401,
\* another status, or a RequestException
HttpOutcomes == {"ok", "malformed", "429", "401", "500", "exception"}

\* lines 15-19: a key as _load_api_keys builds it
FreshKey == [is_exhausted |-> FALSE, last_error_time |-> 0]

\* lines 22-35: a service with n keys
GroqAPIService(n) ==
    [api_keys |-> [i \in 1..n |-> FreshKey], current_key_index |-> 0]

\* lines 67-70: an exhausted key whose cool-down is over is reset
ResetKey(k, now) ==
    IF k.is_exhausted /\ k.last_error_time # 0 /\ now - k.last_error_time > Cooldown
    THEN FreshKey
    ELSE k

RECURSIVE NextKey(_, _, _)
\* lines 63-79: the loop; key is the position of the key returned, 0 for None
NextKey(svc, now, attempts) ==
    IF ~(attempts < Len(svc.api_keys)) THEN [svc |-> svc, key |-> 0]
    ELSE \* the loop body is evaluated on the service with the key reset
         LET i == svc.current_key_index + 1
             svc1 == [svc EXCEPT !.api_keys[i] = ResetKey(@, now)]
         IN  IF ~svc1.api_keys[i].is_exhausted
             THEN [svc |-> svc1, key |-> i]
             ELSE NextKey([svc1 EXCEPT !.current_key_index =
                                          (@ + 1) % Len(svc.api_keys)],
                          now, attempts + 1)

\* the key in use returned whatever its flag says
CurrentKey(svc, now) == [svc |-> svc, key |-> svc.current_key_index + 1]

\* get_next_available_key
get_next_available_key(svc, now) == NextKey(svc, now, 0)

\* mark_key_exhausted
mark_key_exhausted(svc, key, now) ==
    [svc EXCEPT !.api_keys[key] = [is_exhausted |-> TRUE, last_error_time |-> now]]

\* lines 122 and 127: the index moves to the next key
Rotate(svc) ==
    [svc EXCEPT !.current_key_index = (@ + 1) % Len(svc.api_keys)]

\* 2 ** attempt
Pow2(attempt) == IF attempt = 0 THEN 1 ELSE IF attempt = 1 THEN 2 ELSE 4

\* make_api_call has ended: the service and the time it leaves, the requests
\* it sent and what it returned (result) from which line (why)
Ended(svc, now, errors, sent, result, why) ==
    [svc |-> svc, now |-> now, errors |-> errors, sent |-> sent,
     result |-> result, why |-> why]

\* the request just sent with key at time now, and what came back; since is
\* the time of the last 429 or 401 that key received, 0 when it never did
Sent(sent, key, now, errors, outcome) ==
    Append(sent, [key |-> key, at |-> now, since |-> errors[key],
                  status |-> outcome])

\* the loop going round once more than max_retries
RetryingOnceMore(attempt) == attempt <= max_retries

\* line 89: for attempt in range(max_retries)
Retrying(attempt) == attempt < max_retries

RECURSIVE ApiLoop(_, _, _, _, _)
\* lines 108-139: requests.post with the key and the branch its outcome takes
Attempt(svc, key, now, errors, attempt, sent, outcome) ==
    IF outcome = "ok"
    THEN {Ended(svc, now, errors, sent, "content", "ok")}
    ELSE IF outcome = "malformed"
    THEN \* line 118 raises KeyError, IndexError or TypeError
         {Ended(svc, now, errors, sent, "raised", "malformed")}
    ELSE IF outcome \in {"429", "401"}
    THEN ApiLoop(Rotate(mark_key_exhausted(svc, key, now)), now,
                 [errors EXCEPT ![key] = now], attempt + 1, sent)
    ELSE IF attempt = max_retries - 1
    THEN {Ended(svc, now, errors, sent, "None", "retries")}
    ELSE ApiLoop(svc, now + Pow2(attempt), errors, attempt + 1, sent)

\* lines 89-141: the loop from its iteration attempt on; the set of ways the
\* call can end, one for each run of outcomes of its requests
ApiLoop(svc, now, errors, attempt, sent) ==
    IF ~Retrying(attempt)
    THEN {Ended(svc, now, errors, sent, "None", "retries")}
    ELSE UNION {IF g.key = 0
                THEN {Ended(g.svc, now, errors, sent, "None", "no_key")}
                ELSE UNION {Attempt(g.svc, g.key, now, errors, attempt,
                                    Sent(sent, g.key, now, errors, outcome),
                                    outcome) : outcome \in HttpOutcomes}
                : g \in {get_next_available_key(svc, now)}}

\* make_api_call
make_api_call(svc, now, errors) == ApiLoop(svc, now, errors, 0, <<>>)

ApiFrame ==
    UNCHANGED <<request, pc, clock, disk, repo, auto_approve, session, action,
                execution_stopped, workflow_step, workflow_context,
                verification_results, continue_session, confirmed,
                continue_execution, decided, last_run, nexec, response, call,
                procs, cli>>

ApiInit ==
    /\ request \in {"what is the status"}
    /\ pc = "idle"
    /\ clock = 1
    /\ disk = EmptyDict
    /\ repo = [current |-> "feature", branches |-> {"main", "feature"},
               staged |-> TRUE, dirty |-> TRUE, ahead |-> FALSE]
    /\ auto_approve = FALSE
    /\ session = NoSession
    /\ action = NoAction
    /\ execution_stopped = FALSE
    /\ workflow_step = 0
    /\ workflow_context = EmptyDict
    /\ verification_results = EmptyDict
    /\ continue_session = "unasked"
    /\ confirmed = "unasked"
    /\ continue_execution = "unasked"
    /\ decided = NotDecided
    /\ last_run = NoRun
    /\ nexec = 0
    /\ response = "unasked"
    /\ call = NoCall
    /\ procs = NoProcs
    /\ cli = NoCli
    /\ \E n \in 1..MaxKeys :
        groq = [at |-> "idle", svc |-> GroqAPIService(n), now |-> 1,
                calls |-> 0, errors |-> [i \in 1..n |-> 0],
                entry |-> [svc |-> GroqAPIService(n), now |-> 1],
                sent |-> <<>>, result |-> "none", why |-> "none"]

\* an hour passes between two calls
ApiWait ==
    /\ groq.at # "none"
    /\ groq.now + Cooldown <= MaxNow
    /\ groq' = [groq EXCEPT !.now = @ + Cooldown, !.at = "idle"]
    /\ ApiFrame

\* generate_response calls make_api_call
MakeApiCall ==
    /\ groq.at # "none"
    /\ groq.calls < MaxCalls
    /\ \E end \in make_api_call(groq.svc, groq.now, groq.errors) :
        groq' = [at |-> "ended", svc |-> end.svc, now |-> end.now,
                 calls |-> groq.calls + 1, errors |-> end.errors,
                 entry |-> [svc |-> groq.svc, now |-> groq.now],
                 sent |-> end.sent, result |-> end.result, why |-> end.why]
    /\ ApiFrame

ApiNext == ApiWait \/ MakeApiCall

ApiSpec == ApiInit /\ [][ApiNext]_vars

(***************************************************************************)
(* The command-line entry point, cli.main.  A run is a process: its        *)
(* arguments and its surroundings are fixed when it starts, and each check *)
(* of main is a step.  code is the exit status, -1 while the process runs. *)
(***************************************************************************)
\* the content of user.config, "<absent>" when no such file exists
ConfigFiles == {"<absent>", "email=", "email=dev@example.com", "dev@example.com"}

\* the record of the user in the collection: none, one without an apiKey
\* field, or one whose apiKey is null, empty, blank, a key, or not a string
UserRecords == {"<absent>", "<no field>", "<null>", "", "  ", "gsk_live", "<number>"}

\* what the user types or passes as the query
CliQueries == {"", "stage all changes"}

\* how UnifiedGitAgent(...) and process_query end
AgentOutcomes == {"construction raises", "process_query raises", "returns"}

\* setup_user.load_user_config: the email of the first readable file, "" for None
load_user_config(content) ==
    IF content # "<absent>" /\ StartsWith(Strip(content), "email=")
    THEN SubSeq(Strip(content), Len("email=") + 1, Len(Strip(content)))
    ELSE ""

\* lines 14-22: "" stands for None; line 17 treats both alike
check_user_setup(content) == load_user_config(content)

\* MongoDBService.has_valid_api_key: the value returned, by its truth;
\* apiKey.strip() raises on a value that is no string
has_valid_api_key(user) ==
    IF user = "<absent>" THEN "false"
    ELSE IF user \in {"<no field>", "<null>", ""} THEN "false"
    ELSE IF user = "<number>" THEN "raises"
    ELSE IF Strip(user) # "" THEN "true" ELSE "false"

\* an entitlement check that lets the run go on when it cannot connect
CheckApiKeyFailOpen(configured, connects, user) ==
    IF ~configured THEN "raises"
    ELSE IF ~connects THEN "true"
    ELSE has_valid_api_key(user)

\* lines 25-43: MongoDBService() raises without a connection string; a
\* failed connect is False; else what has_valid_api_key says
check_api_key(configured, connects, user) ==
    IF ~configured THEN "raises"
    ELSE IF ~connects THEN "false"
    ELSE has_valid_api_key(user)

\* sys.exit(code), or the end of main (0), or an uncaught exception (1)
Exit(c, code) == [c EXCEPT !.at = "exited", !.code = code]

\* a check passed and main goes on to the next one
Passed(c, check, next) == [c EXCEPT !.at = next, !.passed = Append(@, check)]

CliFrame ==
    UNCHANGED <<request, pc, clock, disk, repo, auto_approve, session, action,
                execution_stopped, workflow_step, workflow_context,
                verification_results, continue_session, confirmed,
                continue_execution, decided, last_run, nexec, response, call,
                procs, groq>>

CliInit ==
    /\ request \in {"what is the status"}
    /\ pc = "idle"
    /\ clock = 1
    /\ disk = EmptyDict
    /\ repo = [current |-> "feature", branches |-> {"main", "feature"},
               staged |-> TRUE, dirty |-> TRUE, ahead |-> FALSE]
    /\ auto_approve = FALSE
    /\ session = NoSession
    /\ action = NoAction
    /\ execution_stopped = FALSE
    /\ workflow_step = 0
    /\ workflow_context = EmptyDict
    /\ verification_results = EmptyDict
    /\ continue_session = "unasked"
    /\ confirmed = "unasked"
    /\ continue_execution = "unasked"
    /\ decided = NotDecided
    /\ last_run = NoRun
    /\ nexec = 0
    /\ response = "unasked"
    /\ call = NoCall
    /\ procs = NoProcs
    /\ groq = NoService
    /\ cli \in [at : {"main"}, setup : BOOLEAN, in_repo : BOOLEAN,
                config : ConfigFiles, configured : BOOLEAN, connects : BOOLEAN,
                user : UserRecords, query : CliQueries, agent : AgentOutcomes,
                email : {""}, passed : {<<>>}, code : {-1},
                constructed : {FALSE}, processed : {FALSE}]

\* lines 71-77: the setup sub-command runs setup_user and returns
ParseArgs ==
    /\ cli.at = "main"
    /\ cli' = IF cli.setup THEN Exit(cli, 0)
              ELSE [cli EXCEPT !.at = "check_git_repository"]
    /\ CliFrame

\* lines 46-51 and 80
CheckGitRepository ==
    /\ cli.at = "check_git_repository"
    /\ cli' = IF ~cli.in_repo THEN Exit(cli, 1)
              ELSE Passed(cli, "repository", "check_user_setup")
    /\ CliFrame

\* lines 83-85
CheckUserSetup ==
    /\ cli.at = "check_user_setup"
    /\ \E email \in {check_user_setup(cli.config)} :
        cli' = IF email = "" THEN Exit(cli, 1)
               ELSE Passed([cli EXCEPT !.email = email], "identity", "check_api_key")
    /\ CliFrame

\* lines 88-98
CheckApiKey ==
    /\ cli.at = "check_api_key"
    /\ \E has_key \in {check_api_key(cli.configured, cli.connects, cli.user)} :
        cli' = IF has_key # "true" THEN Exit(cli, 1)
               ELSE Passed(cli, "entitlement", "query")
    /\ CliFrame

\* lines 101-130: the query, then the agent and process_query
RunAgent ==
    /\ cli.at = "query"
    /\ cli' = IF cli.query = "" THEN Exit(cli, 1)
              ELSE IF cli.agent = "construction raises" THEN Exit(cli, 1)
              ELSE IF cli.agent = "process_query raises"
              THEN Exit([cli EXCEPT !.constructed = TRUE, !.processed = TRUE], 1)
              ELSE Exit([cli EXCEPT !.constructed = TRUE, !.processed = TRUE], 0)
    /\ CliFrame

CliNext ==
    \/ ParseArgs
    \/ CheckGitRepository
    \/ CheckUserSetup
    \/ CheckApiKey
    \/ RunAgent

CliSpec == CliInit /\ [][CliNext]_vars

(***************************************************************************)
(* The Planner on its own: lines 328-416 of _analyzer, from the text the   *)
(* oracle returned to the action, for a request and a step.                *)
(***************************************************************************)
\* the JSON objects the oracle writes
ReplyObjects ==
    {"{\"action_type\": \"execute_command\", \"command\": \"add .\", \"reasoning\": \"stage everything\", \"expected_outcome\": \"changes are staged\", \"verification_commands\": [\"status\", \"diff --cached\"]}",
     "{\"action_type\": \"execute_command\",\n \"command\": \"add .\"}",
     "{\"command\": \"add .\", \"verification_commands\": []}",
     "{\"reasoning\": \"nothing to do\"}",
     "{}"}

\* what the oracle writes before an object
ReplyProse == {"", "Here is the plan:\n", "Fill {name} in: "}

\* what the oracle writes after an object
ReplyCommentary ==
    {"", "\nHope that helps.", " Note: {} stands for all files.",
     " Mind the closing }."}

\* replies without a JSON object
ReplyTexts ==
    {"I am not sure what you mean.", "Run git add { and commit",
     "} first, then {", "{\"command\": \"add .\"", "{command: add .}"}

\* generate_response(prompt): None or a text; before, object and after name
\* the parts a text was put together from
Responses ==
    {[kind |-> "none"]}
    \cup {[kind |-> "text", text |-> t, before |-> "", object |-> "",
           after |-> ""] : t \in ReplyTexts}
    \cup {[kind |-> "text", text |-> b \o o \o a, before |-> b, object |-> o,
           after |-> a] :
            b \in ReplyProse, o \in ReplyObjects, a \in ReplyCommentary}

PlanInit ==
    /\ request \in Queries
    /\ pc = "idle"
    /\ clock = 1
    /\ disk = EmptyDict
    /\ repo = [current |-> "feature", branches |-> {"main", "feature"},
               staged |-> TRUE, dirty |-> TRUE, ahead |-> FALSE]
    /\ auto_approve = FALSE
    /\ session = NoSession
    /\ action = NoAction
    /\ execution_stopped = FALSE
    /\ workflow_step \in {0, 1}
    /\ workflow_context = EmptyDict
    /\ verification_results = EmptyDict
    /\ continue_session = "unasked"
    /\ confirmed = "unasked"
    /\ continue_execution = "unasked"
    /\ decided = NotDecided
    /\ last_run = NoRun
    /\ nexec = 0
    /\ response = "unasked"
    /\ call = NoCall
    /\ procs = NoProcs
    /\ groq = NoService
    /\ cli = NoCli

\* the reply, what lines 339-346 read it as, and the action of line 420
Planned(reply, read, act) ==
    /\ call' = [fn |-> "_analyzer", response |-> reply, read |-> read,
                action |-> act]
    /\ action' = act

Plan ==
    /\ call.fn = "none"
    /\ \E reply \in Responses :
        \E read \in {ReadResponse(reply)} :
            Planned(reply, read, PlanAction(read, Lower(request), workflow_step))
    /\ UNCHANGED <<request, pc, clock, disk, repo, auto_approve, session,
                   execution_stopped, workflow_step, workflow_context,
                   verification_results, continue_session, confirmed,
                   continue_execution, decided, last_run, nexec, response,
                   procs, groq, cli>>

PlanSpec == PlanInit /\ [][Plan]_vars

(***************************************************************************)
(* Session files: json.dump(session, f, indent=2) and json.load(f).  A     *)
(* Python value is given with its type: t is "str", "int", "bool", "list"  *)
(* or "dict", v the text, the number, the truth value, the items, or the   *)
(* pairs [k, v] of the dict in the order it keeps them.  The texts are     *)
(* ASCII, as the sessions drawn below are.                                 *)
(***************************************************************************)
PyStr(s) == [t |-> "str", v |-> s]

PyInt(n) == [t |-> "int", v |-> n]

PyBool(b) == [t |-> "bool", v |-> b]

PyList(items) == [t |-> "list", v |-> items]

PyDict(pairs) == [t |-> "dict", v |-> pairs]

Pair(k, v) == [k |-> k, v |-> v]

\* a character written as it is, quotes and line ends too
EscapeNothing(c) == c

\* the encoder's escapes for the characters that need one
EscapeChar(c) ==
    IF c = "\"" THEN "\\\""
    ELSE IF c = "\\" THEN "\\\\"
    ELSE IF c = "\n" THEN "\\n"
    ELSE IF c = "\t" THEN "\\t"
    ELSE c

RECURSIVE Escape(_, _, _)
\* the characters lo..hi of s, each with its escape
Escape(s, lo, hi) ==
    IF lo > hi THEN ""
    ELSE IF lo = hi THEN EscapeChar(CharAt(s, lo))
    ELSE Escape(s, lo, (lo + hi) \div 2) \o Escape(s, (lo + hi) \div 2 + 1, hi)

\* a str as a JSON string
Quote(s) == "\"" \o Escape(s, 1, Len(s)) \o "\""

Blank == "                    "

\* indent=2: a new line and two spaces for each level
Indent(level) == "\n" \o SubSeq(Blank, 1, 2 * level)

RECURSIVE json_dumps(_, _)
RECURSIVE DumpItems(_, _, _, _)
\* the items lo..hi of a list, a comma and a new line between two
DumpItems(items, level, lo, hi) ==
    IF lo = hi THEN json_dumps(items[lo], level)
    ELSE DumpItems(items, level, lo, (lo + hi) \div 2)
             \o "," \o Indent(level)
             \o DumpItems(items, level, (lo + hi) \div 2 + 1, hi)

RECURSIVE DumpPairs(_, _, _, _)
\* the pairs lo..hi of a dict, a comma and a new line between two
DumpPairs(pairs, level, lo, hi) ==
    IF lo = hi
    THEN Quote(pairs[lo].k) \o ": " \o json_dumps(pairs[lo].v, level)
    ELSE DumpPairs(pairs, level, lo, (lo + hi) \div 2)
             \o "," \o Indent(level)
             \o DumpPairs(pairs, level, (lo + hi) \div 2 + 1, hi)

\* the text json.dump writes for x at a nesting level
json_dumps(x, level) ==
    IF x.t = "str" THEN Quote(x.v)
    ELSE IF x.t = "int" THEN ToString(x.v)
    ELSE IF x.t = "bool" THEN (IF x.v THEN "true" ELSE "false")
    ELSE IF x.t = "list"
    THEN IF Len(x.v) = 0 THEN "[]"
         ELSE "[" \o Indent(level + 1) \o DumpItems(x.v, level + 1, 1, Len(x.v))
                  \o Indent(level) \o "]"
    ELSE IF Len(x.v) = 0 THEN "{}"
         ELSE "{" \o Indent(level + 1) \o DumpPairs(x.v, level + 1, 1, Len(x.v))
                  \o Indent(level) \o "}"

\* the character an escape stands for, "" for an escape that is not read
Unescape(c) ==
    IF c = "n" THEN "\n"
    ELSE IF c = "t" THEN "\t"
    ELSE IF c \in {"\"", "\\", "/"} THEN c
    ELSE ""

RECURSIVE Slashes(_, _)
\* the backslashes right before the index i
Slashes(s, i) == IF At(s, i - 1) = "\\" THEN 1 + Slashes(s, i - 1) ELSE 0

\* the character at i follows the backslash of an escape
Escaped(s, i) == Slashes(s, i) % 2 = 1

RECURSIVE Closing(_, _, _)
\* the first index of lo..hi with a double quote that no backslash escapes,
\* 0 when there is none
Closing(s, lo, hi) ==
    IF lo > hi THEN 0
    ELSE IF lo = hi
    THEN IF CharAt(s, lo) = "\"" /\ ~Escaped(s, lo) THEN lo ELSE 0
    ELSE IF Closing(s, lo, (lo + hi) \div 2) # 0
    THEN Closing(s, lo, (lo + hi) \div 2)
    ELSE Closing(s, (lo + hi) \div 2 + 1, hi)

\* what the character at i of a string stands for
DecodeChar(s, i) ==
    IF Escaped(s, i) THEN Unescape(CharAt(s, i))
    ELSE IF CharAt(s, i) = "\\" THEN ""
    ELSE CharAt(s, i)

RECURSIVE Decode(_, _, _)
\* the text the characters lo..hi of a string stand for
Decode(s, lo, hi) ==
    IF lo > hi THEN ""
    ELSE IF lo = hi THEN DecodeChar(s, lo)
    ELSE Decode(s, lo, (lo + hi) \div 2) \o Decode(s, (lo + hi) \div 2 + 1, hi)

\* the characters lo..hi may stand in a string: no control character, and
\* no escape but the ones read
Readable(s, lo, hi) ==
    \A i \in lo..hi :
        /\ CharAt(s, i) \notin {"\n", "\t"}
        /\ Escaped(s, i) => Unescape(CharAt(s, i)) # ""

\* the string that opens before i and closes at j
ScanStringTo(s, i, j) ==
    IF j = 0 \/ ~Readable(s, i, j - 1) THEN NoParse
    ELSE Parse(PyStr(Decode(s, i, j - 1)), j + 1)

\* the string whose first character is at i
ScanString(s, i) == ScanStringTo(s, i, Closing(s, i, Len(s)))

Digits == "0123456789"

IsDigit(c) == c # "" /\ In(c, Digits)

DigitOf(c) == CHOOSE d \in 0..9 : CharAt(Digits, d + 1) = c

RECURSIVE ScanNumber(_, _, _)
ScanNumber(s, i, n) ==
    IF IsDigit(At(s, i)) THEN ScanNumber(s, i + 1, 10 * n + DigitOf(At(s, i)))
    ELSE Parse(PyInt(n), i)

\* the word at i, for true and false
Literal(s, i, word, val) ==
    IF i + Len(word) - 1 <= Len(s) /\ SubSeq(s, i, i + Len(word) - 1) = word
    THEN Parse(val, i + Len(word))
    ELSE NoParse

\* a value that is no list and no dict, at i
LoadScalar(s, i) ==
    IF At(s, i) = "\"" THEN ScanString(s, i + 1)
    ELSE IF At(s, i) = "t" THEN Literal(s, i, "true", PyBool(TRUE))
    ELSE IF At(s, i) = "f" THEN Literal(s, i, "false", PyBool(FALSE))
    ELSE IF IsDigit(At(s, i)) THEN ScanNumber(s, i, 0)
    ELSE NoParse

\* The decoder as a machine: at is what it waits for at pos ("value", "key",
\* "after" a value), open holds the lists and dicts not closed yet, the
\* innermost last, val the value read last.
Decoder(at, pos, open, val) == [at |-> at, pos |-> pos, open |-> open, val |-> val]

DecodeError == Decoder("error", 0, <<>>, <<>>)

Opened(t, items, key) == [t |-> t, items |-> items, key |-> key]

\* a scalar read
Scalar(d, r) ==
    IF r.ok THEN Decoder("after", r.pos, d.open, r.val) ELSE DecodeError

\* a list or a dict opens at i, j the index of what follows
Opens(s, d, i, j) ==
    IF At(s, i) = "[" /\ At(s, j) = "]"
    THEN Decoder("after", j + 1, d.open, PyList(<<>>))
    ELSE IF At(s, i) = "{" /\ At(s, j) = "}"
    THEN Decoder("after", j + 1, d.open, PyDict(<<>>))
    ELSE IF At(s, i) = "["
    THEN Decoder("value", j, Append(d.open, Opened("list", <<>>, "")), d.val)
    ELSE Decoder("key", j, Append(d.open, Opened("dict", <<>>, "")), d.val)

\* a value starts at i
ValueAt(s, d, i) ==
    IF At(s, i) \in {"[", "{"} THEN Opens(s, d, i, SkipSpace(s, i + 1))
    ELSE Scalar(d, LoadScalar(s, i))

\* the key k read, i the index of what follows
KeyRead(s, d, k, i) ==
    IF ~k.ok \/ At(s, i) # ":" THEN DecodeError
    ELSE Decoder("value", i + 1,
                 [d.open EXCEPT ![Len(d.open)].key = k.val.v], d.val)

\* a key starts at i
KeyAt(s, d, i) ==
    IF At(s, i) # "\"" THEN DecodeError
    ELSE KeyRead(s, d, ScanString(s, i + 1),
                 SkipSpace(s, ScanString(s, i + 1).pos))

\* a dict's pairs with the value of key set: a key met again keeps its place
SetPair(pairs, key, val) ==
    IF \E i \in 1..Len(pairs) : pairs[i].k = key
    THEN [i \in 1..Len(pairs) |->
             IF pairs[i].k = key THEN Pair(key, val) ELSE pairs[i]]
    ELSE Append(pairs, Pair(key, val))

\* the items of the innermost open list or dict with the value read last
Holding(top, val) ==
    IF top.t = "list" THEN Append(top.items, val)
    ELSE SetPair(top.items, top.key, val)

\* after a value inside top, whose items are now items, i the index of what
\* follows
Inside(s, d, top, items, i) ==
    IF At(s, i) = ","
    THEN Decoder(IF top.t = "list" THEN "value" ELSE "key", i + 1,
                 [d.open EXCEPT ![Len(d.open)].items = items], d.val)
    ELSE IF top.t = "list" /\ At(s, i) = "]"
    THEN Decoder("after", i + 1, SubSeq(d.open, 1, Len(d.open) - 1),
                 PyList(items))
    ELSE IF top.t = "dict" /\ At(s, i) = "}"
    THEN Decoder("after", i + 1, SubSeq(d.open, 1, Len(d.open) - 1),
                 PyDict(items))
    ELSE DecodeError

\* after a value, i the index of what follows: the end of the text when
\* nothing is open
After(s, d, i) ==
    IF Len(d.open) = 0
    THEN IF i > Len(s) THEN Decoder("done", i, d.open, d.val) ELSE DecodeError
    ELSE Inside(s, d, d.open[Len(d.open)],
                Holding(d.open[Len(d.open)], d.val), i)

\* one step of the decoder
DecodeStep(s, d) ==
    IF d.at = "value" THEN ValueAt(s, d, SkipSpace(s, d.pos))
    ELSE IF d.at = "key" THEN KeyAt(s, d, SkipSpace(s, d.pos))
    ELSE IF d.at = "after" THEN After(s, d, SkipSpace(s, d.pos))
    ELSE d

RECURSIVE DecodeSteps(_, _, _)
\* n steps of the decoder, the first half and then the second
DecodeSteps(s, d, n) ==
    IF n = 0 \/ d.at \in {"done", "error"} THEN d
    ELSE IF n = 1 THEN DecodeStep(s, d)
    ELSE DecodeSteps(s, DecodeSteps(s, d, n \div 2), n - n \div 2)

\* what the decoder ended with
Decoded(d) == IF d.at = "done" THEN Parse(d.val, d.pos) ELSE NoParse

\* json.load: the value the text of the file holds; every step but the
\* last reads a character at least
json_load(text) ==
    Decoded(DecodeSteps(text, Decoder("value", 1, <<>>, <<>>), Len(text) + 1))

RECURSIVE DictPairs(_, _)
\* the pairs of a dict of texts, one key after the other
DictPairs(d, keys) ==
    IF keys = {} THEN <<>>
    ELSE <<Pair(CHOOSE k \in keys : TRUE,
                PyStr(d[CHOOSE k \in keys : TRUE]))>>
         \o DictPairs(d, keys \ {CHOOSE k \in keys : TRUE})

\* lines 236-244 and 526-535: the branch names are texts, the other facts True
ContextPairs(ctx, keys) ==
    [i \in 1..Len(keys) |->
        Pair(keys[i], IF keys[i] \in {"target_branch_to_delete", "new_branch_name"}
                      THEN PyStr(ctx[keys[i]])
                      ELSE PyBool(ctx[keys[i]]))]

RECURSIVE SetToSeq(_)
SetToSeq(S) ==
    IF S = {} THEN <<>>
    ELSE <<CHOOSE x \in S : TRUE>> \o SetToSeq(S \ {CHOOSE x \in S : TRUE})

\* lines 140-144 and 206-211: the verification_results dict
PyVerification(vres) ==
    PyDict(<<Pair("success", PyBool(vres.success)),
             Pair("details", PyDict(DictPairs(vres.details, DOMAIN vres.details))),
             Pair("issues", PyList([i \in 1..Len(vres.issues) |->
                                        PyStr(vres.issues[i])]))>>)

\* lines 479-488: an entry of the history; the reasoning and the expected
\* outcome are the action's, the timestamp datetime.now().isoformat()
PyEntry(entry) ==
    PyDict(<<Pair("step", PyInt(entry.step)),
             Pair("command", PyStr(entry.command)),
             Pair("reasoning", PyStr("next step")),
             Pair("expected_outcome", PyStr("it works")),
             Pair("result", PyStr(entry.result)),
             Pair("verification_success", PyBool(entry.verification_success)),
             Pair("verification_details", PyVerification(entry.verification_details)),
             Pair("timestamp", PyStr("2024-05-01T10:00:0" \o ToString(entry.step)
                                     \o ".250000"))>>)

\* lines 102-112: the session dict, in the order _create_session builds it
PySession(sess) ==
    PyDict(<<Pair("session_id", PyStr("session_" \o ToString(sess.session_id))),
             Pair("created_at", PyStr("2024-05-01T10:00:00.125000")),
             Pair("original_query", PyStr(sess.original_query)),
             Pair("original_branch", PyStr(sess.original_branch)),
             Pair("workflow_context",
                  PyDict(ContextPairs(sess.workflow_context,
                                      SetToSeq(DOMAIN sess.workflow_context)))),
             Pair("execution_history",
                  PyList([i \in 1..Len(sess.execution_history) |->
                              PyEntry(sess.execution_history[i])])),
             Pair("current_step", PyInt(sess.current_step)),
             Pair("status", PyStr(sess.status))>>)

\* the commands of the workflows the sessions below went through
CommandRuns ==
    {<<>>, <<"add .">>, <<"add .", "commit -m \"wip\"">>,
     <<"add .", "commit -m \"wip\"", "push">>, <<"checkout -b dev">>,
     <<"reset HEAD .", "checkout main", "branch -D feature">>}

\* the session and the repository after one more command, run, verified
\* with the probe `status` and recorded
Step(sess, command, run, ver) ==
    [sess |-> [Recorded(sess.sess, sess.sess.current_step, command, run.out,
                        VerificationResults(ver))
                  EXCEPT !.workflow_context =
                      RecordFact(sess.sess.workflow_context, command, ver.success)],
     repo |-> ver.repo]

RanAndVerified(sess, command, run) ==
    Step(sess, command, run,
         _verify_command_success(run.repo, command, <<"status">>, <<TRUE>>))

RECURSIVE Worked(_, _, _)
\* the session after the commands from the i-th on
Worked(sess, commands, i) ==
    IF i > Len(commands) THEN sess.sess
    ELSE Worked(RanAndVerified(sess, commands[i],
                               execute_git_command(sess.repo, commands[i], TRUE)),
                commands, i + 1)

\* the first step parses the request (lines 232-249)
Parsed(sess) ==
    [sess EXCEPT !.workflow_context =
        ParseWorkflowContext(EmptyDict, Lower(sess.original_query),
                             sess.original_branch)]

SessionInit ==
    /\ request \in Queries
    /\ pc = "idle"
    /\ clock = 1
    /\ disk = EmptyDict
    /\ repo = [current |-> "feature", branches |-> {"main", "feature"},
               staged |-> TRUE, dirty |-> TRUE, ahead |-> FALSE]
    /\ auto_approve = FALSE
    /\ \E commands \in CommandRuns :
        session = Worked([sess |-> Parsed(_create_session(request, "feature")),
                          repo |-> repo], commands, 1)
    /\ action = NoAction
    /\ execution_stopped = FALSE
    /\ workflow_step = 0
    /\ workflow_context = EmptyDict
    /\ verification_results = EmptyDict
    /\ continue_session = "unasked"
    /\ confirmed = "unasked"
    /\ continue_execution = "unasked"
    /\ decided = NotDecided
    /\ last_run = NoRun
    /\ nexec = 0
    /\ response = "unasked"
    /\ call = NoCall
    /\ procs = NoProcs
    /\ groq = NoService
    /\ cli = NoCli

SessionFrame ==
    UNCHANGED <<request, pc, clock, disk, repo, auto_approve, session, action,
                execution_stopped, workflow_step, workflow_context,
                verification_results, continue_session, confirmed,
                continue_execution, decided, last_run, nexec, response,
                procs, groq, cli>>

\* lines 71-75: the session written to its file
SaveSession ==
    /\ call.fn = "none"
    /\ \E saved \in {PySession(session)} :
        call' = [fn |-> "_save_session", session_id |-> saved.v[1].v.v,
                 saved |-> saved, file |-> json_dumps(saved, 0)]
    /\ SessionFrame

\* lines 77-83: the file of that session_id read back
LoadSession ==
    /\ call.fn = "_save_session"
    /\ call' = [fn |-> "_load_session", session_id |-> call.session_id,
                saved |-> call.saved, file |-> call.file,
                loaded |-> json_load(call.file)]
    /\ SessionFrame

SessionNext == SaveSession \/ LoadSession

SessionSpec == SessionInit /\ [][SessionNext]_vars

(***************************************************************************)
(* The command_executor node line by line, in a process that may be        *)
(* interrupted (Ctrl-C, a kill, a power cut) between any two of its steps: *)
(* what it holds in memory is lost, the repository and the session files   *)
(* stay, and a later process_query starts from the files.                  *)
(***************************************************************************)
\* the actions the analyzer hands to the node for a request
ExecutorActions(q) ==
    UNION {{MakeAction("execute_command", c, "next step", "it works", p) :
               p \in OracleProbes(c)} : c \in OracleCommands(q)}

\* the node is at a line of _command_executor
Executor(at) == [fn |-> "_command_executor", at |-> at]

AtLine(at) == pc = "command_executor" /\ call.fn = "_command_executor" /\ call.at = at

InterruptInit ==
    /\ request \in Queries
    /\ pc = "command_executor"
    /\ clock = 1
    /\ repo = [current |-> "feature", branches |-> {"main", "feature"},
               staged |-> TRUE, dirty |-> TRUE, ahead |-> FALSE]
    /\ auto_approve \in BOOLEAN
    /\ session = Parsed(_create_session(request, "feature"))
    /\ disk = _save_session(EmptyDict, session)
    /\ action \in ExecutorActions(request)
    /\ execution_stopped = FALSE
    /\ workflow_step = 0
    /\ workflow_context = session.workflow_context
    /\ verification_results = EmptyDict
    /\ continue_session = "unasked"
    /\ confirmed = "unasked"
    /\ continue_execution = "unasked"
    /\ decided = NotDecided
    /\ last_run = NoRun
    /\ nexec = 0
    /\ response = "json"
    /\ call = Executor("confirm")
    /\ procs = NoProcs
    /\ groq = NoService
    /\ cli = NoCli

\* lines 453-465: the confirmation; the user who declines pauses the session
AskConfirmation ==
    /\ AtLine("confirm")
    /\ \E answer \in BOOLEAN :
        /\ confirmed' = Confirmed(answer)
        /\ IF MayExecute(auto_approve, answer)
           THEN /\ call' = Executor("execute")
                /\ UNCHANGED <<pc, disk, session, execution_stopped>>
           ELSE /\ call' = Executor("returned")
                /\ pc' = "responder"
                /\ execution_stopped' = TRUE
                /\ session' = [session EXCEPT !.status = "paused"]
                /\ disk' = _save_session(disk, session')
    /\ UNCHANGED <<request, clock, repo, auto_approve, action, workflow_step,
                   workflow_context, verification_results, continue_session,
                   continue_execution, decided, last_run, nexec, response,
                   procs, groq, cli>>

\* line 469: the command runs against the repository
RunCommand ==
    /\ AtLine("execute")
    /\ nexec < MaxExec
    /\ \E command \in {StripGit(action.command)},
          ok \in IF MayTimeOut(StripGit(action.command)) THEN BOOLEAN ELSE {TRUE} :
        \E run \in {execute_git_command(repo, command, ok)} :
            /\ repo' = run.repo
            /\ last_run' = [ran |-> TRUE, command |-> command,
                            on_branch |-> repo.current, result |-> run.out]
            /\ call' = Executor("verify")
    /\ nexec' = nexec + 1
    /\ UNCHANGED <<request, pc, clock, disk, auto_approve, session, action,
                   execution_stopped, workflow_step, workflow_context,
                   verification_results, continue_session, confirmed,
                   continue_execution, decided, response, procs, groq, cli>>

\* lines 472-476: the probes and the command-specific check
RunVerification ==
    /\ AtLine("verify")
    /\ \E oks \in ProbeOutcomes(action.verification_commands) :
        \E ver \in {_verify_command_success(repo, last_run.command,
                                            action.verification_commands, oks)} :
            /\ repo' = ver.repo
            /\ call' = [fn |-> "_command_executor", at |-> "record",
                        verification_results |-> VerificationResults(ver)]
    /\ UNCHANGED <<request, pc, clock, disk, auto_approve, session, action,
                   execution_stopped, workflow_step, workflow_context,
                   verification_results, continue_session, confirmed,
                   continue_execution, decided, last_run, nexec, response,
                   procs, groq, cli>>

\* lines 479-510: the entry joins the history in memory; after a failed
\* verification the user is asked whether to go on
RecordEntry ==
    /\ AtLine("record")
    /\ session' = Recorded(session, workflow_step, last_run.command,
                           last_run.result, call.verification_results)
    /\ call' = [call EXCEPT !.at = IF /\ ~call.verification_results.success
                                      /\ ~auto_approve
                                   THEN "prompt" ELSE "update"]
    /\ UNCHANGED <<request, pc, clock, disk, repo, auto_approve, action,
                   execution_stopped, workflow_step, workflow_context,
                   verification_results, continue_session, confirmed,
                   continue_execution, decided, last_run, nexec, response,
                   procs, groq, cli>>

\* lines 506-518: the answer; the user who stops fails the session, which is
\* saved
AnswerPrompt ==
    /\ AtLine("prompt")
    /\ \E answer \in BOOLEAN :
        /\ continue_execution' = Answer(answer)
        /\ IF answer
           THEN /\ call' = [call EXCEPT !.at = "update"]
                /\ UNCHANGED <<pc, disk, session, execution_stopped>>
           ELSE /\ call' = Executor("returned")
                /\ pc' = "responder"
                /\ execution_stopped' = TRUE
                /\ session' = [session EXCEPT !.status = "failed"]
                /\ disk' = _save_session(disk, session')
    /\ UNCHANGED <<request, clock, repo, auto_approve, action, workflow_step,
                   workflow_context, verification_results, continue_session,
                   confirmed, decided, last_run, nexec, response, procs, groq,
                   cli>>

\* lines 520-546: the step is counted, the fact recorded, the session saved
UpdateAndSave ==
    /\ AtLine("update")
    /\ workflow_step' = workflow_step + 1
    /\ verification_results' = call.verification_results
    /\ workflow_context' = RecordFact(workflow_context, last_run.command,
                                      call.verification_results.success)
    /\ session' = [session EXCEPT !.workflow_context = workflow_context']
    /\ disk' = _save_session(disk, session')
    /\ call' = Executor("returned")
    /\ pc' = "analyzer"
    /\ UNCHANGED <<request, clock, repo, auto_approve, action,
                   execution_stopped, continue_session, confirmed,
                   continue_execution, decided, last_run, nexec, response,
                   procs, groq, cli>>

\* the graph comes back to the node with the next action of the analyzer
NextAction ==
    /\ pc = "analyzer"
    /\ call = Executor("returned")
    /\ action' \in ExecutorActions(session.original_query)
    /\ call' = Executor("confirm")
    /\ pc' = "command_executor"
    /\ ForgetLocals
    /\ UNCHANGED <<request, clock, disk, repo, auto_approve, session,
                   execution_stopped, workflow_step, workflow_context,
                   verification_results, nexec, response, procs, groq, cli>>

\* the process ends where it is: nothing is written
Interrupt ==
    /\ pc = "command_executor"
    /\ call.fn = "_command_executor"
    /\ call.at \in {"confirm", "execute", "verify", "record", "prompt", "update"}
    /\ call' = [fn |-> "_command_executor", at |-> "interrupted",
                line |-> call.at, session_id |-> session.session_id]
    /\ pc' = "end"
    /\ UNCHANGED <<request, clock, disk, repo, auto_approve, session, action,
                   execution_stopped, workflow_step, workflow_context,
                   verification_results, continue_session, confirmed,
                   continue_execution, decided, last_run, nexec, response,
                   procs, groq, cli>>

\* after an interruption the next invocation starts from the session files
Restart == call.fn = "_command_executor" /\ call.at = "interrupted" /\ ProcessQuery

InterruptNext ==
    \/ AskConfirmation
    \/ RunCommand
    \/ RunVerification
    \/ RecordEntry
    \/ AnswerPrompt
    \/ UpdateAndSave
    \/ NextAction
    \/ Interrupt
    \/ Restart

InterruptSpec == InterruptInit /\ [][InterruptNext]_vars

(***************************************************************************)
(* Properties.                                                             *)
(***************************************************************************)
\* a process_query invocation starts the graph
Starts == pc \in {"idle", "end"} /\ pc' = "analyzer"

\* C1: the graph takes only these transitions: it is entered at analyzer;
\* analyzer is followed by command_executor when the planned action is
\* execute_command, by info_provider when it is provide_info, by the end
\* when it is end, and by nothing but these three; command_executor is
\* followed by analyzer or responder, info_provider by responder, responder
\* by the end.
C1_Step ==
    /\ pc \in {"idle", "end"} => pc' \in {pc, "analyzer"}
    /\ pc = "analyzer" =>
        /\ pc' \in {"command_executor", "info_provider", "end"}
        /\ action'.action_type = "execute_command" => pc' = "command_executor"
        /\ action'.action_type = "provide_info" => pc' = "info_provider"
        /\ action'.action_type = "end" => pc' = "end"
    /\ pc = "command_executor" => pc' \in {"analyzer", "responder"}
    /\ pc = "info_provider" => pc' = "responder"
    /\ pc = "responder" => pc' = "end"

C1_Transitions == [][C1_Step]_vars

\* a run that looped back to analyzer after a command and then ended on "end"
C1_Witness ==
    pc = "end" /\ action.action_type = "end" /\ session.execution_history # <<>>

\* C2: with auto-approve off, the command runs only after the user said yes
\* to its confirmation; when the user says no, nothing runs, the history and
\* the step counter stay as they are, and responder follows on the
\* execution_stopped rule alone, the workflow rules not being consulted.
C2_Step ==
    (pc = "command_executor" /\ ~auto_approve) =>
        /\ last_run'.ran => confirmed' = "yes"
        /\ confirmed' = "no" =>
            /\ ~last_run'.ran
            /\ nexec' = nexec
            /\ repo' = repo
            /\ session'.execution_history = session.execution_history
            /\ session'.current_step = session.current_step
            /\ workflow_step' = workflow_step
            /\ decided' = [rule |-> "stopped", next |-> "responder"]
            /\ pc' = "responder"

C2_ConfirmationGates == [][C2_Step]_vars

\* the user has just declined the second command of a workflow
C2_Witness ==
    /\ pc = "responder" /\ confirmed = "no" /\ ~auto_approve
    /\ session.execution_history # <<>>

\* C3: responder ends the run with status paused when the user declined a
\* command, failed when the user declined to go on after a failed
\* verification, completed otherwise, and the saved record says the same.
C3_Step ==
    pc = "responder" =>
        /\ pc' = "end"
        /\ session'.status = IF confirmed = "no" THEN "paused"
                             ELSE IF continue_execution = "no" THEN "failed"
                             ELSE "completed"
        /\ disk'[session'.session_id] = session'

C3_FinalStatus == [][C3_Step]_vars

\* a run that ended after the user stopped it on a failed verification
C3_Witness ==
    /\ pc = "end" /\ session.status = "failed" /\ execution_stopped
    /\ disk[session.session_id].status = "failed"

\* the saved records with status active
ActiveIds(d) == {id \in DOMAIN d : d[id].status = "active"}

\* C4: at most one saved record is active; an invocation that finds an
\* active record either goes on with it, the disk untouched, or, the user
\* having declined, leaves no active record but the session it creates.
C4_Step ==
    /\ Cardinality(ActiveIds(disk')) <= 1
    /\ (Starts /\ ActiveIds(disk) # {}) =>
        IF continue_session' = "no"
        THEN /\ ~auto_approve'
             /\ ActiveIds(disk') = {session'.session_id}
             /\ session'.execution_history = <<>>
             /\ \A id \in ActiveIds(disk) \ {session'.session_id} :
                    disk'[id] = [disk[id] EXCEPT !.status = "completed"]
        ELSE /\ session' \in {disk[id] : id \in ActiveIds(disk)}
             /\ disk' = disk

C4_OneActiveSession == [][C4_Step]_vars

\* a second session started after the user declined to go on with the first
C4_Witness ==
    /\ pc = "analyzer" /\ continue_session = "no"
    /\ Cardinality(DOMAIN disk) = 2
    /\ ActiveIds(disk) = {session.session_id}

\* the saved records with status paused
PausedIds(d) == {id \in DOMAIN d : d[id].status = "paused"}

\* C5: an invocation that finds a paused record (and no active one) goes on
\* with that session: same id, history and workflow context.
C5_Step ==
    (Starts /\ ActiveIds(disk) = {} /\ PausedIds(disk) # {}) =>
        \E id \in PausedIds(disk) :
            /\ session'.session_id = id
            /\ session'.execution_history = disk[id].execution_history
            /\ session'.workflow_context = disk[id].workflow_context

C5_PausedIsResumed == [][C5_Step]_vars
\* the command_executor node has just run a command
JustRan == last_run.ran /\ decided.rule # "none"

\* the history entry of the command that has just run
LastEntry == session.execution_history[Len(session.execution_history)]

\* some executed command holds one of the markers
Ran(markers) ==
    \E i \in 1..Len(session.execution_history) :
        \E m \in markers : In(m, session.execution_history[i].command)

\* the request, in lower case, asks to delete the branch checked out
DeleteRequest(q) ==
    In("delete", q) /\ (In("current branch", q) \/ In("this branch", q))

\* the sub-steps of the multi-step pattern the request q (lower case)
\* matches, the first that matches in the order of the spec; {} when none
RequiredSteps(q) ==
    IF (In("switch", q) \/ In("checkout", q)) /\ In("pull", q) /\ In("merge", q)
    THEN {"switch", "pull", "merge"}
    ELSE IF In("pull", q) /\ In("merge", q) THEN {"pull", "merge"}
    ELSE IF (In("stage", q) \/ In("add", q)) /\ In("commit", q)
    THEN {"stage", "commit"} \cup (IF In("push", q) THEN {"push"} ELSE {})
    ELSE IF In("create", q) /\ In("branch", q) THEN {"create"}
    ELSE IF DeleteRequest(q) THEN {"delete"}
    ELSE {}

\* the session holds evidence of the sub-step: an executed command that
\* names it, or the fact recorded for it in the workflow context
Evidence(step) ==
    IF step = "switch" THEN Ran({"checkout", "switch"})
    ELSE IF step = "stage" THEN Ran({"add"})
    ELSE IF step = "create"
    THEN Ran({"checkout -b", "switch -c"})
         \/ Get(workflow_context, "new_branch_created", FALSE)
    ELSE IF step = "delete" THEN Get(workflow_context, "branch_deleted", FALSE)
    ELSE Ran({step})

MissingSteps ==
    {step \in RequiredSteps(Lower(session.original_query)) : ~Evidence(step)}

\* C6 as claimed: for a request of a multi-step pattern, after every executed
\* command the decider answers analyzer while evidence of some sub-step is
\* missing, and responder as soon as none is.
C6_ContinuesIffEvidenceMissing ==
    (JustRan /\ RequiredSteps(Lower(session.original_query)) # {}) =>
        (decided.next = "analyzer" <=> MissingSteps # {})

\* C6 as amended: after an executed command that the user did not halt the
\* run on, the decider answers analyzer exactly when evidence of some
\* sub-step is missing or the verification of the command failed; it
\* answers responder when the user halted the run.
C6_ContinuesIffMissingOrFailed ==
    (JustRan /\ RequiredSteps(Lower(session.original_query)) # {}) =>
        (decided.next = "analyzer" <=>
            /\ ~execution_stopped
            /\ MissingSteps # {} \/ ~LastEntry.verification_success)

\* every sub-step has its evidence, the last command failed its verification,
\* and the decider goes back to analyzer
C6_Witness ==
    /\ JustRan /\ RequiredSteps(Lower(session.original_query)) # {}
    /\ MissingSteps = {} /\ ~LastEntry.verification_success
    /\ decided.next = "analyzer"

\* C7: for a request to delete the current branch, no command that deletes
\* the session's original branch runs while that branch is checked out.
C7_NoDeleteWhileCheckedOut ==
    (/\ last_run.ran
     /\ DeleteRequest(Lower(session.original_query))
     /\ In("branch -d", last_run.command) \/ In("branch -D", last_run.command)
     /\ LastWord(last_run.command) = session.original_branch)
    => last_run.on_branch # session.original_branch

\* C8: for a request to delete the current branch, target_branch_to_delete
\* is set by the first analyzer step to the session's original_branch and
\* keeps that value at every later step and after a resume, whatever branch
\* is checked out; a session's original_branch never changes.
DeleteRequests == {q \in Queries : DeleteRequest(Lower(q))}

C8_Bound(ctx, sess) ==
    Has(ctx, "target_branch_to_delete")
        => ctx["target_branch_to_delete"] = sess.original_branch

C8_Step ==
    /\ C8_Bound(workflow_context', session')
    /\ C8_Bound(session'.workflow_context, session')
    /\ \A id \in DOMAIN disk' : C8_Bound(disk'[id].workflow_context, disk'[id])
    /\ (/\ session'.original_query \in DeleteRequests
        /\ pc' # "analyzer" \/ workflow_step' > 0)
       => Has(workflow_context', "target_branch_to_delete")
    /\ pc \notin {"idle", "end"} =>
        /\ session'.original_branch = session.original_branch
        /\ Has(workflow_context, "target_branch_to_delete")
            => Has(workflow_context', "target_branch_to_delete")
    /\ (Starts /\ ActiveIds(disk) # {} /\ continue_session' # "no") =>
        /\ session'.original_branch = disk[session'.session_id].original_branch
        /\ workflow_context' = disk[session'.session_id].workflow_context
    /\ \A id \in DOMAIN disk :
        \/ disk'[id].original_branch = disk[id].original_branch
        \/ Starts /\ session'.session_id = id /\ session'.current_step = 0

C8_TargetIsOriginalBranch == [][C8_Step]_vars

\* a resumed session, another branch checked out by now, the target unchanged
C8_Witness ==
    /\ pc = "analyzer" /\ continue_session = "yes" /\ workflow_step > 0
    /\ repo.current # session.original_branch
    /\ Has(workflow_context, "target_branch_to_delete")
    /\ workflow_context["target_branch_to_delete"] = session.original_branch

\* C9: for the request "unstage changes", once `reset HEAD .` has run as the
\* only command and passed its verification, the decider answers responder.
C9_UnstageStops ==
    (/\ JustRan /\ decided.rule = "workflow"
     /\ session.original_query = "unstage changes"
     /\ last_run.command = "reset HEAD ."
     /\ Len(session.execution_history) = 1
     /\ LastEntry.verification_success)
    => decided.next = "responder"

\* C10: a command that ends in an execution error ("Error: ...") is
\* recorded with verification success false and at least one issue.
C10_ErrorFailsVerification ==
    (JustRan /\ StartsWith(last_run.result, "Error:")) =>
        /\ ~LastEntry.verification_success
        /\ LastEntry.verification_details.issues # <<>>

\* the text holds one of the failure indicators of line 153
Indicates(text) == In("error", Lower(text)) \/ In("fatal", Lower(text))

\* _verify_command_success has just returned
Verified == call.fn = "_verify_command_success"

\* the probes whose output holds a failure indicator
FailingProbes ==
    {i \in 1..Len(call.probes) :
        Indicates(call.result.details[call.probes[i]])}

\* the issue line 155 writes for probe i
ProbeIssue(i) ==
    "Verification command '" \o call.probes[i] \o "' returned error: "
    \o call.result.details[call.probes[i]]

\* the semantic check of the command taken alone, on a clean record
SemanticAlone ==
    SemanticCheck([repo |-> repo, success |-> TRUE,
                   details |-> call.result.details, issues |-> <<>>],
                  call.command)

\* C11: the verifier answers success only when no probe output holds "error"
\* or "fatal" and the semantic check of the command passes; each failing
\* probe has its own issue and so has the failing semantic check, which
\* comes last, and issues holds nothing else.
C11_AllFailuresListed ==
    Verified =>
        /\ call.result.success =>
            (FailingProbes = {} /\ SemanticAlone.success)
        /\ \A i \in FailingProbes :
            \E j \in 1..Len(call.result.issues) :
                call.result.issues[j] = ProbeIssue(i)
        /\ ~SemanticAlone.success =>
            /\ call.result.issues # <<>>
            /\ call.result.issues[Len(call.result.issues)]
                = SemanticAlone.issues[1]
        /\ Len(call.result.issues)
            = Cardinality(FailingProbes)
              + (IF SemanticAlone.success THEN 0 ELSE 1)

\* two probes fail, the semantic check fails too, and issues lists all three
C11_Witness ==
    /\ Verified
    /\ Cardinality(FailingProbes) = 2
    /\ ~SemanticAlone.success
    /\ Len(call.result.issues) = 3
    /\ ~call.result.success

\* the verified command deletes a branch
DeletionVerified ==
    /\ Verified
    /\ In("branch -d", call.command) \/ In("branch -D", call.command)

\* C12: for a branch-deletion command with no failing probe, the verifier
\* answers failure with an issue naming the branch when the branch is still
\* among the branches listed, and success when it is not, whatever other
\* branches are listed.
C12_DeletionVerifiedByListing ==
    (DeletionVerified /\ FailingProbes = {}) =>
        IF LastWord(call.command) \in repo.branches
        THEN /\ ~call.result.success
             /\ \E j \in 1..Len(call.result.issues) :
                    In(LastWord(call.command), call.result.issues[j])
        ELSE call.result.success

\* the requests that hold a keyword of action_keywords
ActionRequests == {q \in Queries : is_action_request(Lower(q))}

\* the analyzer has planned the first step of the session from a reply of
\* the oracle
PlannedStepZero ==
    /\ pc \in {"command_executor", "info_provider", "end"}
    /\ workflow_step = 0
    /\ response \in {"text", "json"}
    /\ action # NoAction

\* C13: for a request that holds an action keyword, the action planned on
\* step zero from any reply of the oracle, with a JSON object or without,
\* is of kind execute_command.
C13_ActionRequestRunsCommand ==
    (PlannedStepZero /\ session.original_query \in ActionRequests)
        => action.action_type = "execute_command"

\* C14: when generate_response returns None, the analyzer plans an action of
\* kind end that says why, and the run ends there: no command runs in that
\* step, the repository and the history stay as they are, and process_query
\* returns.
C14_Step ==
    (pc = "analyzer" /\ response' = "none") =>
        /\ action'.action_type = "end"
        /\ action'.reasoning # ""
        /\ pc' = "end"
        /\ ~last_run'.ran
        /\ nexec' = nexec
        /\ repo' = repo
        /\ session'.execution_history = session.execution_history
        /\ session'.current_step = session.current_step

C14_UnavailableOracleEnds == [][C14_Step]_vars

\* the oracle became unavailable after a first command had run
C14_Witness ==
    /\ pc = "end" /\ response = "none"
    /\ action.reasoning = "API service unavailable. Please try again."
    /\ session.execution_history # <<>>

\* C15: a run that has started reaches the end after finitely many steps,
\* whatever the oracle replies and the user answers: the loop analyzer ->
\* command_executor -> analyzer does not repeat forever (a behaviour of the
\* model is followed until it holds MaxExec commands).
C15_RunReachesEnd == (pc = "analyzer") ~> (pc = "end" \/ nexec = MaxExec)

\* C16: between two nodes of a run, and when the run is over, the record
\* saved under the id of the session is the session held in memory: same
\* status, workflow context, history and current step.
C16_SavedIsCurrent ==
    pc # "idle" =>
        /\ Has(disk, session.session_id)
        /\ disk[session.session_id] = session

\* two commands into a workflow, a fact recorded, the record up to date
C16_Witness ==
    /\ pc = "analyzer"
    /\ Len(session.execution_history) = 2
    /\ Has(session.workflow_context, "changes_committed")
    /\ disk[session.session_id].execution_history = session.execution_history
    /\ disk[session.session_id].workflow_context = session.workflow_context

\* C17: when two invocations interleave, the second resumes the active
\* session or supersedes it: whatever the order of their scans and of their
\* creations, the directory never holds two records with status active.
C17_NoSecondActiveSession == Cardinality(ActiveIds(disk)) <= 1

\* an invocation creates a session: it found no active one, or the user
\* declined to go on with the one it found
Creates == Starts /\ (ActiveIds(disk) = {} \/ continue_session' = "no")

\* C18: a session that is created gets an id no earlier session of the
\* repository has, so its record replaces no other record, the record of a
\* session marked completed a moment before in the same second included.
C18_Step ==
    Creates =>
        /\ session'.session_id \notin DOMAIN disk
        /\ \A id \in DOMAIN disk :
            disk'[id] \in {disk[id], [disk[id] EXCEPT !.status = "completed"]}

C18_FreshSessionId == [][C18_Step]_vars

\* execute_git_command has just returned
ExecuteReturned == call.fn = "execute_git_command"

\* C19: the words execute_git_command runs git with make the command
\* non-interactive: a commit whose text names no message has a -m flag with
\* the default message, a merge has --no-edit, and a rebase has neither -i
\* nor --interactive.
C19_RunsNonInteractive ==
    (ExecuteReturned /\ call.parts # <<>>) =>
        /\ (/\ call.parts[1] = "commit"
            /\ ~In("-m", call.command) /\ ~In("--message", call.command))
           => \E i \in 1..(Len(call.parts) - 1) :
                call.parts[i] = "-m" /\ call.parts[i + 1] = "Automated commit"
        /\ call.parts[1] = "merge" => Member("--no-edit", call.parts)
        /\ call.parts[1] = "rebase" =>
            /\ ~Member("-i", call.parts)
            /\ ~Member("--interactive", call.parts)

\* C20: a failure of the git process comes back as a value: after a non-zero
\* exit the string returned starts with "Error: " and carries what git wrote
\* to stderr; after a timeout it is the timeout message, which no non-zero
\* exit produces; in both cases the call returns to its caller.
C20_FailuresAreValues ==
    ExecuteReturned =>
        /\ (call.in_time /\ call.code # 0) =>
            /\ StartsWith(call.result, "Error: ")
            /\ Strip(call.stderr) # ""
                => call.result = "Error: " \o Strip(call.stderr)
            /\ call.result # TimedOut
        /\ ~call.in_time =>
            /\ call.result = TimedOut
            /\ StartsWith(call.result, "Error: ")

\* git refused the command and said why on stderr
C20_Witness ==
    /\ ExecuteReturned /\ call.in_time /\ call.code # 0
    /\ Strip(call.stderr) # ""
    /\ call.result = "Error: " \o Strip(call.stderr)

\* a is b, or b with entries added at its end
Prefix(a, b) == Len(a) <= Len(b) /\ SubSeq(b, 1, Len(a)) = a

\* a step of a run: a node of the graph runs
InRun == pc \notin {"idle", "end"}

\* an invocation resumes the session of the record id
Resumes(id) ==
    /\ Starts
    /\ ~Creates
    /\ id \in ActiveIds(disk)
    /\ session'.session_id = id

\* C21: the execution history of a session only grows at its end.  A node
\* that runs a command appends one entry, for that command, and leaves the
\* entries before it alone; every other node leaves the history as it is; a
\* later invocation that resumes the session starts from the history that
\* was saved; and the record of a session on disk keeps its entries for as
\* long as the record is that session's.
C21_Step ==
    /\ InRun =>
        /\ Prefix(session.execution_history, session'.execution_history)
        /\ Len(session'.execution_history) =
               Len(session.execution_history) + (IF last_run'.ran THEN 1 ELSE 0)
        /\ last_run'.ran =>
               session'.execution_history[Len(session'.execution_history)].command
                   = last_run'.command
    /\ Starts /\ ~Creates =>
        \E id \in ActiveIds(disk) :
            /\ Resumes(id)
            /\ session'.execution_history = disk[id].execution_history
    /\ \A id \in DOMAIN disk :
        /\ id \in DOMAIN disk'
        /\ \/ Prefix(disk[id].execution_history, disk'[id].execution_history)
           \/ Creates /\ session'.session_id = id

C21_HistoryAppendOnly == [][C21_Step]_vars

\* a command has just been appended to a history that held two entries
C21_Witness ==
    /\ last_run.ran
    /\ Len(session.execution_history) = 3
    /\ session.execution_history[3].command = last_run.command
    /\ disk[session.session_id].execution_history = session.execution_history

\* the facts of ctx are facts of ctx2, with the same values
Keeps(ctx, ctx2) ==
    \A k \in DOMAIN ctx : k \in DOMAIN ctx2 /\ ctx2[k] = ctx[k]

\* C22: a fact in the workflow context of a session stays there.  From one
\* node to the next the context of the run and of the session keep every
\* fact they hold; an invocation that resumes a session starts from the
\* context that was saved; and the record of a session on disk keeps its
\* facts for as long as the record is that session's.
C22_Step ==
    /\ InRun =>
        /\ Keeps(workflow_context, workflow_context')
        /\ Keeps(session.workflow_context, session'.workflow_context)
    /\ Starts /\ ~Creates =>
        \E id \in ActiveIds(disk) :
            /\ Resumes(id)
            /\ Keeps(disk[id].workflow_context, session'.workflow_context)
            /\ Keeps(disk[id].workflow_context, workflow_context')
    /\ \A id \in DOMAIN disk :
        /\ id \in DOMAIN disk'
        /\ \/ Keeps(disk[id].workflow_context, disk'[id].workflow_context)
           \/ Creates /\ session'.session_id = id

C22_FactsStay == [][C22_Step]_vars

\* a second fact has just joined the first in the context of a session
C22_Witness ==
    /\ last_run.ran
    /\ Has(workflow_context, "changes_staged")
    /\ Has(workflow_context, "changes_committed")
    /\ Has(disk[session.session_id].workflow_context, "changes_staged")

\* make_api_call has ended
ApiEnded == groq.at = "ended"

\* every key of the service is exhausted and inside its cool-down at time now
AllCooling(svc, now) ==
    \A i \in DOMAIN svc.api_keys :
        /\ svc.api_keys[i].is_exhausted
        /\ ~(svc.api_keys[i].last_error_time # 0
             /\ now - svc.api_keys[i].last_error_time > Cooldown)

\* the requests of the call that status 200 answered
Answered == {i \in DOMAIN groq.sent : groq.sent[i].status \in {"ok", "malformed"}}

\* C23: a call of make_api_call sends at most max_retries (3) requests and
\* ends.  When no request was answered with status 200, because the retries
\* ran out or no key was left, it returns None and raises nothing (the only
\* exception it lets through comes from reading the body of a 200 reply).
\* When every key is exhausted and cooling down as the call begins, it
\* returns None and sends no request.
C23_BoundedRetries ==
    ApiEnded =>
        /\ Len(groq.sent) <= max_retries
        /\ groq.result \in {"content", "None", "raised"}
        /\ Answered = {} => groq.result = "None" /\ groq.why \in {"retries", "no_key"}
        /\ groq.result = "raised" => groq.sent[Len(groq.sent)].status = "malformed"
        /\ AllCooling(groq.entry.svc, groq.entry.now) =>
               groq.result = "None" /\ groq.sent = <<>>

\* three requests, a rate limit among them, none answered: None is returned
C23_Witness ==
    /\ ApiEnded
    /\ Len(groq.sent) = max_retries
    /\ \E i \in DOMAIN groq.sent : groq.sent[i].status = "429"
    /\ groq.result = "None"
    /\ groq.why = "retries"

\* C24: a key that received 429 or 401 is marked exhausted with the time of
\* that reply, and no request is sent with it until more than Cooldown
\* (3600) seconds have passed since then; the attempt after such a reply
\* uses another key; and make_api_call ends for want of a key
\* (get_next_available_key returned None) only when every key is exhausted
\* and inside its cool-down.
C24_CooldownRespected ==
    ApiEnded =>
        /\ \A i \in DOMAIN groq.sent :
            /\ groq.sent[i].since = 0 \/ groq.sent[i].at - groq.sent[i].since > Cooldown
            /\ groq.sent[i].status \in {"429", "401"} =>
                /\ groq.svc.api_keys[groq.sent[i].key].is_exhausted
                /\ groq.svc.api_keys[groq.sent[i].key].last_error_time = groq.sent[i].at
                /\ i < Len(groq.sent) => groq.sent[i + 1].key # groq.sent[i].key
        /\ groq.why = "no_key" => AllCooling(groq.svc, groq.now)

\* a key that was rate limited is used again once its cool-down is over,
\* after the other key was rate limited in its turn
C24_Witness ==
    /\ ApiEnded
    /\ \E i \in DOMAIN groq.sent :
        /\ groq.sent[i].since # 0
        /\ i > 1
        /\ groq.sent[i - 1].status = "429"

\* the checks of main, in the order the entry point makes them
Checks == <<"repository", "identity", "entitlement">>

\* the process has ended
Exited == cli.at = "exited"

\* the surroundings of the run lack something the entry point requires
Lacking ==
    \/ ~cli.in_repo
    \/ load_user_config(cli.config) = ""
    \/ ~cli.connects
    \/ cli.user \in {"<absent>", "<no field>", "<null>", "", "  "}

\* C25: the entry point fails closed.  The checks pass in the order
\* repository, identity, entitlement; the agent is constructed and
\* process_query called only after all three have passed; and a run for a
\* query (not the setup sub-command) that lacks the repository, the
\* identity, the entitlement or the connection to look it up ends with a
\* non-zero exit status, no agent constructed and process_query not called.
C25_FailsClosed ==
    /\ Prefix(cli.passed, Checks)
    /\ cli.constructed \/ cli.processed =>
        /\ cli.passed = Checks
        /\ ~Lacking
    /\ Exited /\ ~cli.setup /\ Lacking =>
        /\ cli.code # 0
        /\ ~cli.constructed
        /\ ~cli.processed

\* repository and identity are in order, the entitlement cannot be looked
\* up: the process has ended with status 1 before any agent was built
C25_Witness ==
    /\ Exited
    /\ cli.passed = <<"repository", "identity">>
    /\ cli.configured
    /\ ~cli.connects
    /\ cli.user = "gsk_live"
    /\ cli.code = 1
    /\ ~cli.constructed

\* the Planner has returned the action for a reply
AnalyzerReturned == call.fn = "_analyzer"

\* the Planner read a JSON object in the reply
ReadObject == AnalyzerReturned /\ call.read.kind = "json"

\* the five fields of an action
Fields ==
    {"action_type", "command", "reasoning", "expected_outcome",
     "verification_commands"}

\* C26 as stated: an object that lacks fields gets them, the probe list as
\* the empty list and the action kind as provide_info, and the action
\* returned has all five fields.
C26_SafeDefaults ==
    ReadObject =>
        /\ Fields \subseteq DOMAIN call.action
        /\ ~Has(call.read.obj, "verification_commands") =>
               call.action["verification_commands"] = <<>>
        /\ ~Has(call.read.obj, "action_type") =>
               call.action["action_type"] = "provide_info"

\* the request is an action request and the step is the first of the session
Forced == request \in ActionRequests /\ workflow_step = 0

\* the default of a field the object lacks
DefaultOf(k) ==
    IF k = "action_type"
    THEN IF Forced THEN "execute_command" ELSE "provide_info"
    ELSE IF k = "reasoning" THEN "Generated from response"
    ELSE IF k = "verification_commands" THEN <<"status">>
    ELSE ""

\* C26, amended: the action returned for an object has all five fields; a
\* field the object holds keeps its value; a missing probe list becomes
\* <<"status">>, a missing action kind execute_command when the request is
\* an action request at the first step and provide_info otherwise, a
\* missing reasoning "Generated from response", a missing command or
\* expected outcome the empty string.
C26_Defaults ==
    ReadObject =>
        /\ Fields \subseteq DOMAIN call.action
        /\ \A k \in DOMAIN call.read.obj : call.action[k] = call.read.obj[k]
        /\ \A k \in Fields \ DOMAIN call.read.obj : call.action[k] = DefaultOf(k)

\* an object with a reasoning only, after a line of prose, for an action
\* request at the first step: the action runs the empty command and probes
\* the status
C26_Witness ==
    /\ ReadObject
    /\ call.response.before = "Here is the plan:\n"
    /\ DOMAIN call.read.obj = {"reasoning"}
    /\ Forced
    /\ call.action["action_type"] = "execute_command"
    /\ call.action["verification_commands"] = <<"status">>

\* the reply is a text in which the Planner read no object
NoObject ==
    /\ AnalyzerReturned
    /\ call.response.kind = "text"
    /\ call.read.kind = "text"

Unstage == In("unstage", Lower(request))

CreateBranch == In("create", Lower(request)) /\ In("branch", Lower(request))

\* the action echoes the text of the reply
Echoes ==
    call.action = MakeAction("provide_info", "", call.response.text, "", <<>>)

C28_ObjectAmidProse ==
    /\ AnalyzerReturned
    /\ call.response.kind = "text"
    /\ call.response.object # ""
    /\ ~In("{", call.response.before)
    /\ ~In("}", call.response.before)
    /\ ~In("{", call.response.after)
    => /\ call.read.kind = "json"
       /\ call.read.obj = json_loads(call.response.object).val
       /\ call.action = FillDefaults(json_loads(call.response.object).val,
                                     force_action(workflow_step, Lower(request)))

\* _extract_current_branch has returned
Extracted == call.fn = "_extract_current_branch"

\* C29: _extract_current_branch returns a text for every text it is given,
\* the empty one included; for the listing of a repository on a branch it
\* returns the name on the line marked '*', for a listing whose marked line
\* is parenthesized it returns "HEAD (detached)", and a second call on the
\* same text returns the same.
C29_CurrentBranch ==
    Extracted =>
        /\ call.result \in STRING
        /\ call.again = call.result
        /\ call.text = get_git_branch(repo) => call.result = repo.current
        /\ call.text = DetachedText(repo) => call.result = "HEAD (detached)"
        /\ call.text = "" => call.result = "unknown"

\* the marked line is the second of three
C29_Witness ==
    /\ Extracted
    /\ repo.branches = {"dev", "feature", "main"}
    /\ repo.current = "feature"
    /\ call.text = "dev\n* feature\n  main"
    /\ call.result = "feature"

\* the names of a dict's fields, in the order it keeps them
FieldNames(d) == [i \in 1..Len(d.v) |-> d.v[i].k]

SessionFields ==
    <<"session_id", "created_at", "original_query", "original_branch",
      "workflow_context", "execution_history", "current_step", "status">>

\* the entries of the history of a session dict
HistoryOf(d) == d.v[6].v.v

\* C30: a session saved and then loaded by its session_id is read without
\* an error, has the eight fields session_id, created_at, original_query,
\* original_branch, workflow_context, execution_history, current_step and
\* status, and each of them equals the saved one, whatever the number of
\* history entries.
C30_RoundTrip ==
    call.fn = "_load_session" =>
        /\ call.loaded.ok
        /\ call.loaded.val.t = "dict"
        /\ FieldNames(call.saved) = SessionFields
        /\ FieldNames(call.loaded.val) = SessionFields
        /\ \A i \in 1..Len(SessionFields) :
               call.loaded.val.v[i] = call.saved.v[i]

\* a session with three history entries, one of a command with quotes in
\* it and a probe's output of several lines, was saved and loaded
C30_Witness ==
    /\ call.fn = "_load_session"
    /\ call.loaded.ok
    /\ Len(HistoryOf(call.saved)) = 3
    /\ \E i \in 1..3 :
           /\ In("\"", HistoryOf(call.saved)[i].v[2].v.v)
           /\ In("\n", HistoryOf(call.saved)[i].v[7].v.v[2].v.v[1].v.v)
    /\ In("\\n", call.file)
    /\ HistoryOf(call.loaded.val) = HistoryOf(call.saved)

\* the facts that tell a step of the workflow is done
CompletionFacts ==
    {"branch_deleted", "new_branch_created", "changes_staged",
     "changes_committed", "changes_pushed"}

\* the words of the command are those of a command that earns the fact
Earns(parts, fact) ==
    /\ parts # <<>>
    /\ \/ fact = "branch_deleted" /\ parts[1] = "branch"
          /\ (Member("-d", parts) \/ Member("-D", parts))
       \/ fact = "new_branch_created" /\ Len(parts) >= 2
          /\ <<parts[1], parts[2]>> \in {<<"checkout", "-b">>, <<"switch", "-c">>}
       \/ fact = "changes_staged" /\ parts[1] = "add"
       \/ fact = "changes_committed" /\ parts[1] = "commit"
       \/ fact = "changes_pushed" /\ parts[1] = "push"

\* the completion facts ctx2 holds and ctx does not
Gained(ctx, ctx2) == {f \in CompletionFacts : Has(ctx2, f) /\ ~Has(ctx, f)}

\* the node that ran has executed a command that earns the fact, and its
\* verification, as recorded in the history, said success
EarnedNow(fact) ==
    /\ pc = "command_executor"
    /\ last_run'.ran
    /\ Earns(Words(last_run'.command), fact)
    /\ Get(verification_results', "success", FALSE)
    /\ session'.execution_history # <<>>
    /\ session'.execution_history[Len(session'.execution_history)].command
           = last_run'.command
    /\ session'.execution_history[Len(session'.execution_history)]
           .verification_success

\* C31: a completion fact (branch_deleted, new_branch_created,
\* changes_staged, changes_committed, changes_pushed) enters the workflow
\* context of a run, of its session and of the record on disk only in the
\* step that executed a command of the matching kind whose verification said
\* success; a command whose verification failed adds no fact; an invocation
\* starts from the facts of the session it resumes, or from none.
C31_Step ==
    /\ InRun =>
        /\ \A f \in Gained(workflow_context, workflow_context') : EarnedNow(f)
        /\ \A f \in Gained(session.workflow_context, session'.workflow_context) :
               EarnedNow(f)
        /\ (/\ last_run'.ran
            /\ ~session'.execution_history[Len(session'.execution_history)]
                    .verification_success) =>
               /\ Gained(workflow_context, workflow_context') = {}
               /\ Gained(session.workflow_context,
                         session'.workflow_context) = {}
    /\ Starts =>
        /\ workflow_context' = session'.workflow_context
        /\ Creates => Gained(EmptyDict, workflow_context') = {}
        /\ ~Creates => \E id \in ActiveIds(disk) :
               workflow_context' = disk[id].workflow_context
    /\ \A id \in DOMAIN disk' :
        \A f \in Gained(IF id \in DOMAIN disk THEN disk[id].workflow_context
                        ELSE EmptyDict, disk'[id].workflow_context) :
            session'.session_id = id /\ EarnedNow(f)

C31_FactsAreEarned == [][C31_Step]_vars

\* the deletion of the branch checked out has just failed its verification,
\* the user went on, and the context holds no branch_deleted
C31_Witness ==
    /\ pc = "analyzer"
    /\ last_run.ran
    /\ Earns(Words(last_run.command), "branch_deleted")
    /\ ~verification_results.success
    /\ ~LastEntry.verification_success
    /\ continue_execution = "yes"
    /\ ~Has(workflow_context, "branch_deleted")
    /\ ~Has(disk[session.session_id].workflow_context, "branch_deleted")

\* the verifier applied the commit criterion of lines 185-199: the command
\* names commit and none of the texts the earlier criteria look for
CommitChecked ==
    /\ Verified
    /\ In("commit", call.command)
    /\ ~In("branch -d", call.command) /\ ~In("branch -D", call.command)
    /\ ~In("checkout", call.command) /\ ~In("switch", call.command)
    /\ ~In("add", call.command)

\* the output of the log probe, `log -1`, mentions a commit
LogEvidence ==
    \E i \in 1..Len(call.probes) :
        /\ call.probes[i] = "log -1"
        /\ In("commit", call.result.details[call.probes[i]])

\* what `git status` shows after the commit: a clean tree, or commits ahead
StatusEvidence == (~repo.staged /\ ~repo.dirty) \/ repo.ahead

Listed(issue) ==
    \E j \in 1..Len(call.result.issues) : call.result.issues[j] = issue

C33_FailureHasIssue ==
    Verified => (call.result.success <=> call.result.issues = <<>>)

\* a push that did not come through: no probe failed, the push criterion
\* did, and its issue is the only one
C33_Witness ==
    /\ Verified
    /\ FirstWord(call.command) = "push"
    /\ FailingProbes = {}
    /\ ~call.result.success
    /\ call.result.issues = <<"Push failed - branch is still ahead of remote">>

\* the step counter of a session record counts its history, whose entries
\* are numbered 1, 2, ... in order
Numbered(sess) ==
    /\ sess.current_step = Len(sess.execution_history)
    /\ \A i \in 1..Len(sess.execution_history) :
           sess.execution_history[i].step = i

\* C34: between two nodes of a run, at its end and when a later invocation
\* resumes the session, current_step of the session is the number of entries
\* of its execution history and the entries carry the steps 1, 2, ..., n in
\* order, without a gap or a repeat; the same holds of every record on disk.
C34_StepsAreNumbered ==
    /\ pc # "idle" => Numbered(session)
    /\ \A id \in DOMAIN disk : Numbered(disk[id])

\* the user has just agreed to go on with a session of two commands, and
\* the invocation starts at step 2
C34_Witness ==
    /\ pc = "analyzer"
    /\ continue_session = "yes"
    /\ Len(session.execution_history) = 2
    /\ session.execution_history[2].step = 2
    /\ session.current_step = 2
    /\ workflow_step = 2
    /\ disk[session.session_id] = session

\* the probes of lines 146-150 run for the command that was executed
ProbesRun == call.fn = "execute_git_command" /\ call'.fn = "_verify_command_success"

\* C35: the verification probes named in the oracle's reply are read-only:
\* the verifier, which asks the user nothing, leaves the repository as the
\* command left it, so that no command that changes the repository runs
\* without the user's confirmation.
C35_Step == ProbesRun => repo' = repo

C35_ProbesAreReadOnly == [][C35_Step]_vars

\* the process was interrupted in the node
Interrupted == call.fn = "_command_executor" /\ call.at = "interrupted"

\* the history of the record saved for the interrupted session holds the
\* command that line 469 ran last, as its last entry
Persisted ==
    /\ Has(disk, call.session_id)
    /\ Len(disk[call.session_id].execution_history) = nexec
    /\ nexec > 0
    /\ disk[call.session_id].execution_history[nexec].command = last_run.command

\* C36: when the process is interrupted after a command has run against the
\* repository, be it during the verification or while the question about
\* going on after a failure waits for its answer, the session record on
\* disk holds the entry of that command, and the invocation that resumes the
\* session starts with it in its history.
C36_ExecutedIsPersisted ==
    (Interrupted /\ last_run.ran) =>
        /\ Persisted
        /\ (pc = "analyzer" /\ session.session_id = call.session_id) =>
               /\ Len(session.execution_history) = nexec
               /\ workflow_step = nexec

\* C37: the graph goes from command_executor back to analyzer only after
\* the node has run one command: the step counter is one more than before
\* and the history has one entry more, for that command, also when the
\* command of the planned action is empty.
C37_Step ==
    (pc = "command_executor" /\ pc' = "analyzer") =>
        /\ last_run'.ran
        /\ workflow_step' = workflow_step + 1
        /\ Len(session'.execution_history) = Len(session.execution_history) + 1

C37_LoopsBackAfterACommand == [][C37_Step]_vars

\* the command reduced to its subcommand, for a commit, a push and a
\* staging command
Subcommand(command) ==
    IF FirstWord(StripGit(command)) \in {"commit", "push", "add"}
    THEN FirstWord(StripGit(command))
    ELSE command

\* the command-specific check of the subcommand alone, on a clean record
SemanticOfSubcommand ==
    SemanticCheck([repo |-> repo, success |-> TRUE,
                   details |-> call.result.details, issues |-> <<>>],
                  Subcommand(call.command))

\* C38: the command-specific check the verifier applies is the one of the
\* command's subcommand: a commit is checked with the commit criterion, a
\* push with the push criterion, a staging command with the staging
\* criterion, whatever words its arguments hold (a commit message with
\* "add", "checkout" or "switch" in it, for example).
C38_CheckedBySubcommand ==
    Verified =>
        /\ SemanticAlone.success = SemanticOfSubcommand.success
        /\ SemanticAlone.issues = SemanticOfSubcommand.issues

\* C39: when a run of process_query has reached the end of the graph, its
\* session is no longer active: the status of the session, in memory and on
\* disk, is completed, failed or paused, on every path to the end, the path
\* from analyzer to the end on an action of kind end included.
C39_EndedRunIsNotActive ==
    pc = "end" =>
        /\ session.status \in {"completed", "failed", "paused"}
        /\ disk[session.session_id].status \in {"completed", "failed", "paused"}

\* the word gives a commit its message: -m, --message, --message=<text>, or
\* short flags written together with m among them, as -am
GivesMessage(word) ==
    \/ word \in {"-m", "--message"}
    \/ StartsWith(word, "--message=")
    \/ /\ StartsWith(word, "-") /\ ~StartsWith(word, "--")
       /\ In("m", word)

\* the words of the command as it was written
Written(command) ==
    LET sh == ShlexSplit(StripGit(command))
    IN  IF sh.ok THEN sh.parts ELSE SimpleSplit(StripGit(command))

\* C40: execute_git_command adds only what is missing: a commit written
\* with a message in any form (-m, --message, --message=<text>, -am) gets no
\* default message, a merge written with --no-edit gets no second one, the
\* words run are left as they are by the same addition applied again, and
\* the words of a command shlex could not split get the same additions as
\* the words of one it could.
C40_AddsOnlyWhatIsMissing ==
    (ExecuteReturned /\ call.parts # <<>>) =>
        LET written == Written(call.command)
        IN  /\ (/\ call.parts[1] = "commit"
                /\ \E i \in 1..Len(written) : GivesMessage(written[i]))
               => ~Member("Automated commit", call.parts)
            /\ (call.parts[1] = "merge" /\ Member("--no-edit", written))
               => Cardinality({i \in 1..Len(call.parts) :
                                  call.parts[i] = "--no-edit"}) = 1
            /\ NonInteractive(call.parts, JoinWith(call.parts, " ")) = call.parts
            /\ call.parts = NonInteractive(written, StripGit(call.command))

==============================================================================
